---- MODULE Spec2Model ----
(***************************************************************************)
(* PokeKanjiStrings: kana -> kanji conversion of game strings.             *)
(*                                                                         *)
(* A JavaScript string is modelled as a sequence of UTF-16 code units.     *)
(* An ASCII character stands for itself ("{", "0", "n", "\\" is the        *)
(* backslash).  A non-ASCII character is written as one tagged name:       *)
(*   "<hira:a>" U+3042   "<hira:i>" U+3044   "<hira:ka>" U+304B            *)
(*   "<hira:ga>" U+304C  "<dakuten>" U+3099 (combining voiced mark)        *)
(*   "<kata:ka>" U+30AB  "<choon>" U+30FC (prolonged sound mark)           *)
(*   "<kanji:1>" U+4E00  "<kanji:a>" U+4E9C  "<kanji:i>" U+4E95            *)
(*   "<kanji:o>" U+963F                                                    *)
(*   "<openq>" U+300E    "<closeq>" U+300F   "<fwbang>" U+FF01             *)
(*   "<ellipsis>" U+2026 "<midellipsis>" U+22EF  "<2dot>" U+2025           *)
(*   "<ideosp>" U+3000   "<nbsp>" U+00A0  "<figsp>" U+2007                 *)
(*   "<nnbsp>" U+202F    "<tab>" U+0009   "<LF>" U+000A  "<CR>" U+000D     *)
(*   "<fwhyphen>" U+FF0D "<hyphen>" U+2010 "<endash>" U+2013               *)
(*   "<emdash>" U+2014   "<hbar>" U+2015  "<minus>" U+2212                 *)
(*   "<lsquo>" U+2018    "<rsquo>" U+2019                                  *)
(*   "<ordm>" U+00BA     "<ring>" U+02DA  "<modo>" U+1D52 "<degree>" U+00B0*)
(*   "<wavedash>" U+301C "<fwtilde>" U+FF5E "<greekq>" U+037E              *)
(***************************************************************************)
EXTENDS Integers, Sequences, FiniteSets, TLC

VARIABLES
    \* normalizeForComparison applied twice (utils/normalizeForComparison.ts)
    nText, nOnce, nTwice, nPc,
    \* the tokenizers (extractStructure, extractFormatting)
    tText, tTokens, tPc,
    \* computeDiff, one backtracking step per action
    cleanKana, cleanKanji, lcsI, lcsJ,
    currentKana, currentKanji, segments, merged, dPc,
    \* main of the current entry point, on one corpus entry and one XML string
    kanaCorpus, kanjiCorpus, xmlText, xmlMatches, converted, lPc,
    \* buildKanaToKanjiMap of either attempt, one corpus line per step
    bKanaLines, bKanjiLines, bI, bMap, bLog, bPc,
    \* main and processXmlFile of the second attempt, one <string> element
    \* per step (mDoc: the lines of the file read, mLines: those not yet
    \* processed, mOutput: the lines of modifiedContent)
    mKanaLines, mKanjiLines, mLookupMap, mLines, mStats, mText, mKanjiText,
    mFormattedKanji, mPc, mDoc, mOutput,
    \* main of the LLM stage (kanjify), one request or response per step
    \* (llmBatches: the batches sliced so far, llmPending: the numbers of
    \* the batches whose call has not returned)
    llmVariant, llmEntries, llmI, llmBatches, llmPending, llmRetry,
    llmConversions, llmPc,
    \* main of the current entry point on a whole corpus and a whole XML file,
    \* one step of main per action (corpusI: the entries step 4 has done)
    kanaLines, kanjiLines, xmlContent, xmlLines, xmlStrings, corpusI,
    xmlMatchesMap, modifiedXml, outputContent, llmInputStrings, runPc,
    \* main and processBatchWithLLM of the LLM stage with the Gemini option,
    \* one request, response or wait per step (callFrames: the nested calls
    \* of processBatchWithLLM, the innermost last; waitedMs: the time slept
    \* since the last Gemini request, -1 before the first)
    useGemini, noMatchLines, loopI, allConversions, callFrames, callRequests,
    callReturned, waitedMs, callPc

normVars == <<nText, nOnce, nTwice, nPc>>
tokVars == <<tText, tTokens, tPc>>
diffVars == <<cleanKana, cleanKanji, lcsI, lcsJ, currentKana, currentKanji,
              segments, merged, dPc>>
lcsVars == <<kanaCorpus, kanjiCorpus, xmlText, xmlMatches, converted, lPc>>
buildVars == <<bKanaLines, bKanjiLines, bI, bMap, bLog, bPc>>
matchVars == <<mKanaLines, mKanjiLines, mLookupMap, mLines, mStats, mText,
               mKanjiText, mFormattedKanji, mPc, mDoc, mOutput>>
llmVars == <<llmVariant, llmEntries, llmI, llmBatches, llmPending, llmRetry,
             llmConversions, llmPc>>
runVars == <<kanaLines, kanjiLines, xmlContent, xmlLines, xmlStrings, corpusI,
             xmlMatchesMap, modifiedXml, outputContent, llmInputStrings, runPc>>
callVars == <<useGemini, noMatchLines, loopI, allConversions, callFrames,
              callRequests, callReturned, waitedMs, callPc>>
vars == <<normVars, tokVars, diffVars, lcsVars, buildVars, matchVars,
          llmVars, runVars, callVars>>

-----------------------------------------------------------------------------
(* Strings *)

\* All sequences over S of length 0..n.
SeqsUpTo(S, n) == UNION {[1..k -> S] : k \in 0..n}

RECURSIVE Flatten(_)
\* Concatenation of a sequence of strings (Array.prototype.join('')).
Flatten(ss) ==
    IF ss = <<>> THEN <<>>
    ELSE IF Len(ss) = 1 THEN ss[1]
    ELSE Flatten(SubSeq(ss, 1, Len(ss) \div 2))
         \o Flatten(SubSeq(ss, Len(ss) \div 2 + 1, Len(ss)))

\* The least number of a non-empty set of numbers.
MinOf(S) == CHOOSE p \in S : \A q \in S : p <= q

\* s.substring(i0, j0) with 0-based, end-exclusive JavaScript indices.
Substring(s, i0, j0) == SubSeq(s, i0 + 1, j0)

\* Does pat occur in s at 1-based position p ?
OccursAt(s, pat, p) ==
    /\ p >= 1
    /\ p + Len(pat) - 1 <= Len(s)
    /\ SubSeq(s, p, p + Len(pat) - 1) = pat

\* s.includes(pat)
Includes(s, pat) == \E p \in 1..(Len(s) + 1) : OccursAt(s, pat, p)

\* s.indexOf(pat) as a 1-based position, 0 when absent.
IndexOf(s, pat) ==
    IF Includes(s, pat)
    THEN MinOf({p \in 1..(Len(s) + 1) : OccursAt(s, pat, p)})
    ELSE 0

RECURSIVE ReplaceAll(_, _, _)
\* The match at position p of s replaced, and those after it.
ReplaceFrom(s, pat, rep, p) ==
    SubSeq(s, 1, p - 1) \o rep
    \o ReplaceAll(SubSeq(s, p + Len(pat), Len(s)), pat, rep)

\* s.replaceAll(pat, rep) and s.replace(/pat/g, rep) for a literal, non-empty
\* pat: one left-to-right scan, the text already replaced is not rescanned.
ReplaceAll(s, pat, rep) ==
    IF ~Includes(s, pat) THEN s ELSE ReplaceFrom(s, pat, rep, IndexOf(s, pat))

RECURSIVE GetSubstitution(_, _, _, _)
\* The replacement text of String.prototype.replace for a string pattern:
\* "$$" stands for "$", "$&" for the matched text, "$`" for the text before
\* the match and "$'" for the text after it; there are no captures, so any
\* other "$" is kept as it is.
GetSubstitution(rep, matched, before, after) ==
    IF rep = <<>> THEN <<>>
    ELSE IF Head(rep) = "$" /\ Len(rep) >= 2 /\ rep[2] \in {"$", "&", "`", "'"}
    THEN (CASE rep[2] = "$" -> <<"$">>
            [] rep[2] = "&" -> matched
            [] rep[2] = "`" -> before
            [] rep[2] = "'" -> after)
         \o GetSubstitution(SubSeq(rep, 3, Len(rep)), matched, before, after)
    ELSE <<Head(rep)>> \o GetSubstitution(Tail(rep), matched, before, after)

\* s.replace(pat, rep) with a string pattern: only the first occurrence.
ReplaceFirst(s, pat, rep) ==
    LET p == IndexOf(s, pat)
    IN  IF p = 0 THEN s
        ELSE SubSeq(s, 1, p - 1)
             \o GetSubstitution(rep, pat, SubSeq(s, 1, p - 1),
                                SubSeq(s, p + Len(pat), Len(s)))
             \o SubSeq(s, p + Len(pat), Len(s))

RECURSIVE SplitFrom(_, _, _)
SplitFrom(s, delim, cur) ==
    IF s = <<>> THEN <<cur>>
    ELSE IF OccursAt(s, delim, 1)
         THEN <<cur>> \o SplitFrom(SubSeq(s, Len(delim) + 1, Len(s)), delim, <<>>)
         ELSE SplitFrom(Tail(s), delim, Append(cur, Head(s)))

\* s.split(delim) for a non-empty delimiter.
Split(s, delim) == SplitFrom(s, delim, <<>>)

RECURSIVE Join(_, _)
\* parts.join(delim)
Join(parts, delim) ==
    IF parts = <<>> THEN <<>>
    ELSE IF Len(parts) = 1 THEN Head(parts)
    ELSE Head(parts) \o delim \o Join(Tail(parts), delim)

RECURSIVE Reverse(_)
\* s.split('').reverse().join('')
Reverse(s) == IF s = <<>> THEN <<>> ELSE Append(Reverse(Tail(s)), Head(s))

-----------------------------------------------------------------------------
(* Character classes of the regular expressions *)

\* [U+3041-U+3093], hiragana
Hiragana == {"<hira:a>", "<hira:i>", "<hira:ka>", "<hira:ga>"}
\* [U+30A1-U+30F6], katakana
Katakana == {"<kata:ka>"}
\* [U+4E00-U+9FAF], kanji
Kanji == {"<kanji:1>", "<kanji:a>", "<kanji:i>", "<kanji:o>"}
\* The class of the speaker-name pattern: hiragana, katakana, the prolonged
\* sound mark, kanji (and U+3005, U+3006, U+3024).
SpeakerChars == Hiragana \cup Katakana \cup Kanji \cup {"<choon>"}
\* [0-9A-F] under the i flag
HexDigits == {"0", "1", "2", "3", "4", "5", "6", "7", "8", "9",
              "A", "B", "C", "D", "E", "F", "a", "b", "c", "d", "e", "f"}
\* \s
Whitespace == {" ", "<tab>", "<LF>", "<CR>", "<nbsp>", "<figsp>", "<nnbsp>",
               "<ideosp>"}
\* The class of the punctuation pattern: full- and half-width punctuation,
\* brackets and quotes.
Punctuation == {"<fwbang>", "!", "?", ",", ".", ";", ":", "(", ")",
                "<openq>", "<closeq>", "[", "]"}

Backslash == "\\"
\* The two-character line-break escape, backslash n.
LineBreak == <<Backslash, "n">>
DoubleLineBreak == LineBreak \o LineBreak
ControlC == <<Backslash, "c">>
ControlR == <<Backslash, "r">>

-----------------------------------------------------------------------------
(* cleanSpecial and normalizeForComparison *)

\* String.prototype.normalize() (NFC) on the model's characters: the voiced
\* mark composes with KA, the Greek question mark is a singleton for ";";
\* every other character of the model is NFC-stable.
NormalizeNFC(s) ==
    ReplaceAll(ReplaceAll(s, <<"<hira:ka>", "<dakuten>">>, <<"<hira:ga>">>),
               <<"<greekq>">>, <<";">>)

\* The replaceAll chain of cleanSpecial as (from, to) pairs, in source order.
CleanSpecialTable ==
    << <<"<nbsp>", <<" ">> >>, <<"<figsp>", <<" ">> >>,
       <<"<nnbsp>", <<" ">> >>, <<"<ideosp>", <<" ">> >>,
       <<"\"", <<"\"">> >>, <<"\"", <<"\"">> >>,
       <<"<lsquo>", <<"'">> >>, <<"<rsquo>", <<"'">> >>,
       <<"<choon>", <<"<choon>">> >>, <<"<fwhyphen>", <<"<choon>">> >>,
       <<"<hyphen>", <<"<choon>">> >>, <<"<endash>", <<"<choon>">> >>,
       <<"<emdash>", <<"<choon>">> >>, <<"<hbar>", <<"<choon>">> >>,
       <<"<minus>", <<"<choon>">> >>, <<"-", <<"<choon>">> >>,
       <<"<ordm>", <<"<degree>">> >>, <<"<ring>", <<"<degree>">> >>,
       <<"<modo>", <<"<degree>">> >>, <<"<wavedash>", <<"<fwtilde>">> >>,
       <<"<2dot>", <<".", ".">> >>, <<"<ellipsis>", <<".", ".", ".">> >> >>

RECURSIVE ApplyTable(_, _)
ApplyTable(s, table) ==
    IF table = <<>> THEN s
    ELSE ApplyTable(ReplaceAll(s, <<Head(table)[1]>>, Head(table)[2]),
                    Tail(table))

\* The characters the replaceAll chain looks for.
CleanSpecialChars == {CleanSpecialTable[k][1] : k \in DOMAIN CleanSpecialTable}

\* The whole chain applied to each of them.
CleanSpecialOf == [ch \in CleanSpecialChars |-> ApplyTable(<<ch>>, CleanSpecialTable)]

\* Every pattern of the chain is one character, so each replaceAll rewrites
\* the characters of the text one by one, and so does the chain: its result
\* is the concatenation of its results on the characters of the text.
cleanSpecial(text) ==
    NormalizeNFC(Flatten([k \in 1..Len(text) |->
        IF text[k] \in CleanSpecialChars THEN CleanSpecialOf[text[k]]
        ELSE <<text[k]>>]))

\* Length of the longest prefix of s made of characters of class.
PrefixRun(s, class) ==
    IF \A k \in 1..Len(s) : s[k] \in class THEN Len(s)
    ELSE MinOf({k \in 1..Len(s) : s[k] \notin class}) - 1

\* replace(/^[speaker characters]+<openq>/g, ''): the open quote is not a
\* speaker character, so the match is the whole run followed by the quote.
StripSpeaker(s) ==
    LET k == PrefixRun(s, SpeakerChars)
    IN  IF k >= 1 /\ k < Len(s) /\ s[k + 1] = "<openq>"
        THEN SubSeq(s, k + 2, Len(s))
        ELSE s

IsVariableAt(s, p) ==
    /\ p + 3 <= Len(s)
    /\ s[p] = "{"
    /\ s[p + 1] \in HexDigits
    /\ s[p + 2] \in HexDigits
    /\ s[p + 3] = "}"

\* The position of the leftmost variable of s.
FirstVariable(s) == MinOf({p \in 1..Len(s) : IsVariableAt(s, p)})

RECURSIVE StripVariables(_)
\* The variable at position p of s removed, and those after it.
StripVariablesFrom(s, p) ==
    SubSeq(s, 1, p - 1) \o StripVariables(SubSeq(s, p + 4, Len(s)))

\* replace(/\{[0-9A-F]{2}\}/gi, '')
StripVariables(s) ==
    IF \A p \in 1..Len(s) : ~IsVariableAt(s, p) THEN s
    ELSE StripVariablesFrom(s, FirstVariable(s))

\* Length of a match of /\[VAR\s+[^\]]+\]/i at the head of s, 0 if none:
\* "[VAR", then up to the first "]" at least two characters of which the
\* first is whitespace.
VarTagLen(s) ==
    IF /\ Len(s) >= 7
       /\ s[1] = "["
       /\ s[2] \in {"V", "v"} /\ s[3] \in {"A", "a"} /\ s[4] \in {"R", "r"}
       /\ s[5] \in Whitespace
       /\ \E q \in 7..Len(s) : s[q] = "]"
    THEN LET q == CHOOSE q \in 6..Len(s) :
                     s[q] = "]" /\ \A r \in 6..(q - 1) : s[r] # "]"
         IN  IF q >= 7 THEN q ELSE 0
    ELSE 0

\* Length of a match that starts at position p of s, 0 if none.
VarTagLenAt(s, p) == IF s[p] = "[" THEN VarTagLen(SubSeq(s, p, Len(s))) ELSE 0

\* The position of the leftmost match in s.
FirstVarTag(s) == MinOf({p \in 1..Len(s) : VarTagLenAt(s, p) > 0})

RECURSIVE StripVarTags(_)
\* The match of length n at position p of s removed, and those after it.
StripVarTagsFrom(s, p, n) ==
    SubSeq(s, 1, p - 1) \o StripVarTags(SubSeq(s, p + n, Len(s)))

\* replace(/\[VAR\s+[^\]]+\]/gi, '')
StripVarTags(s) ==
    IF \A p \in 1..Len(s) : VarTagLenAt(s, p) = 0 THEN s
    ELSE StripVarTagsFrom(s, FirstVarTag(s), VarTagLenAt(s, FirstVarTag(s)))

\* Length of a match of /<[^>]+>/ at the head of s, 0 if none.
XmlTagLen(s) ==
    IF Len(s) >= 3 /\ s[1] = "<" /\ s[2] # ">"
       /\ \E q \in 3..Len(s) : s[q] = ">"
    THEN CHOOSE q \in 3..Len(s) : s[q] = ">" /\ \A r \in 3..(q - 1) : s[r] # ">"
    ELSE 0

\* Length of a match that starts at position p of s, 0 if none.
XmlTagLenAt(s, p) == IF s[p] = "<" THEN XmlTagLen(SubSeq(s, p, Len(s))) ELSE 0

\* The position of the leftmost match in s.
FirstXmlTag(s) == MinOf({p \in 1..Len(s) : XmlTagLenAt(s, p) > 0})

RECURSIVE StripXmlTags(_)
\* The match of length n at position p of s removed, and those after it.
StripXmlTagsFrom(s, p, n) ==
    SubSeq(s, 1, p - 1) \o StripXmlTags(SubSeq(s, p + n, Len(s)))

\* replace(/<[^>]+>/g, '')
StripXmlTags(s) ==
    IF \A p \in 1..Len(s) : XmlTagLenAt(s, p) = 0 THEN s
    ELSE StripXmlTagsFrom(s, FirstXmlTag(s), XmlTagLenAt(s, FirstXmlTag(s)))

\* replace(/[...]/g, '') and replace(/\s+/g, ''): delete a class.
RemoveClass(s, class) == SelectSeq(s, LAMBDA ch : ch \notin class)

RECURSIVE Trim(_)
\* String.prototype.trim()
Trim(s) ==
    IF s = <<>> THEN s
    ELSE IF Head(s) \in Whitespace THEN Trim(Tail(s))
    ELSE IF s[Len(s)] \in Whitespace THEN Trim(SubSeq(s, 1, Len(s) - 1))
    ELSE s

\* The steps of normalizeForComparison after the variables are removed:
\* control marks, line breaks, ellipses, punctuation, cleanSpecial,
\* whitespace, trim.
NormalizeTail(s) ==
    LET s1 == ReplaceAll(s, ControlC, <<>>)
        s2 == ReplaceAll(s1, ControlR, <<>>)
        s3 == ReplaceAll(s2, LineBreak, <<>>)
        s4 == ReplaceAll(s3, <<"<LF>">>, <<>>)
        s5 == ReplaceAll(s4, <<"<CR>">>, <<>>)
        s6 == ReplaceAll(s5, <<"<midellipsis>">>, <<"<ellipsis>">>)
        s7 == ReplaceAll(s6, <<"<ellipsis>", "<ellipsis>">>, <<"<ellipsis>">>)
        s8 == RemoveClass(s7, Punctuation)
        s9 == cleanSpecial(s8)
        s10 == RemoveClass(s9, Whitespace)
    IN  Trim(s10)

\* utils/normalizeForComparison.ts
normalizeForComparison(text) ==
    NormalizeTail(StripVarTags(StripVariables(StripSpeaker(text))))

\* The second attempt's own copy, which also removes XML/HTML tags.
normalizeForComparison_second(text) ==
    NormalizeTail(StripVarTags(StripVariables(StripXmlTags(StripSpeaker(text)))))

-----------------------------------------------------------------------------
(* Tokenizers *)

TextToken(v) == [type |-> "text", value |-> v]
VariableToken(v) == [type |-> "variable", value |-> v]
LinebreakToken == [type |-> "linebreak", value |-> LineBreak]
SpeakerToken(v) == [type |-> "speaker", value |-> v]

\* if (currentText) { tokens.push({ type: 'text', value: currentText }) }
FlushText(tokens, currentText) ==
    IF currentText # <<>> THEN Append(tokens, TextToken(currentText)) ELSE tokens

\* text[i] === '\\' && i + 1 < text.length && text[i + 1] === 'n'  (i 1-based)
IsLineBreakAt(text, i) ==
    /\ i + 1 <= Len(text)
    /\ text[i] = Backslash
    /\ text[i + 1] = "n"

RECURSIVE ExtractStructureLoop(_, _, _, _)
\* The while loop shared by both extractStructure versions; i is 1-based.
\* Returns the tokens pushed and the text run still pending at the end.
ExtractStructureLoop(text, i, currentText, tokens) ==
    IF i > Len(text) THEN [tokens |-> tokens, currentText |-> currentText]
    ELSE IF IsVariableAt(text, i)
         THEN ExtractStructureLoop(text, i + 4, <<>>,
                  Append(FlushText(tokens, currentText),
                         VariableToken(SubSeq(text, i, i + 3))))
    ELSE IF IsLineBreakAt(text, i)
         THEN ExtractStructureLoop(text, i + 2, <<>>,
                  Append(FlushText(tokens, currentText), LinebreakToken))
    ELSE ExtractStructureLoop(text, i + 1, Append(currentText, text[i]), tokens)

\* A plausible slip: the text run pending at the end of the loop is not pushed.
extractStructure_noFinalFlush(text) ==
    ExtractStructureLoop(text, 1, <<>>, <<>>).tokens

\* secondAttempt.ts extractStructure
extractStructure(text) ==
    LET r == ExtractStructureLoop(text, 1, <<>>, <<>>)
    IN  FlushText(r.tokens, r.currentText)

\* text.match(/^([speaker characters]+<openq>)/): length of the match, 0 if none.
SpeakerMatchLen(text) ==
    LET k == PrefixRun(text, SpeakerChars)
    IN  IF k >= 1 /\ k < Len(text) /\ text[k + 1] = "<openq>" THEN k + 1 ELSE 0

\* firstAttempt.ts extractStructure, which first takes a speaker prefix.
extractStructure_first(text) ==
    LET k == SpeakerMatchLen(text)
        r == ExtractStructureLoop(text, k + 1, <<>>,
                 IF k > 0 THEN <<SpeakerToken(SubSeq(text, 1, k))>> ELSE <<>>)
    IN  FlushText(r.tokens, r.currentText)

RECURSIVE ExtractFormattingLoop(_, _, _, _)
\* The for loop of extractFormatting; i is 1-based. Any two characters may
\* stand between the braces of a variable.
ExtractFormattingLoop(text, i, currentText, result) ==
    IF i > Len(text) THEN [tokens |-> result, currentText |-> currentText]
    ELSE IF text[i] = "{" /\ i + 3 <= Len(text) /\ text[i + 3] = "}"
         THEN ExtractFormattingLoop(text, i + 4, <<>>,
                  Append(FlushText(result, currentText),
                         VariableToken(SubSeq(text, i, i + 3))))
    ELSE IF IsLineBreakAt(text, i)
         THEN ExtractFormattingLoop(text, i + 2, <<>>,
                  Append(FlushText(result, currentText), LinebreakToken))
    ELSE ExtractFormattingLoop(text, i + 1, Append(currentText, text[i]), result)

\* firstAttempt.ts extractFormatting
extractFormatting(text) ==
    LET r == ExtractFormattingLoop(text, 1, <<>>, <<>>)
    IN  FlushText(r.tokens, r.currentText)

\* The token values, concatenated in order.
TokenValues(tokens) == Flatten([k \in 1..Len(tokens) |-> tokens[k].value])

\* The ordered subsequence of variable and line-break tokens.
StructuralTokens(tokens) ==
    SelectSeq(tokens, LAMBDA t : t.type \in {"variable", "linebreak"})

-----------------------------------------------------------------------------
(* reconstructWithFormatting *)

\* cleanSpecial(x).replace(/\s+/g, '')
CleanContent(x) == RemoveClass(cleanSpecial(x), Whitespace)

RECURSIVE ReconstructLoop(_, _, _, _)
\* for (const token of structure): k is the 1-based token index,
\* replacementIndex the 0-based position in cleanReplacement.
ReconstructLoop(structure, k, cleanReplacement, acc) ==
    IF k > Len(structure) THEN acc
    ELSE LET token == structure[k]
             segmentLength == Len(CleanContent(token.value))
             idx == acc.replacementIndex
             portion == Substring(cleanReplacement, idx,
                            IF idx + segmentLength < Len(cleanReplacement)
                            THEN idx + segmentLength ELSE Len(cleanReplacement))
         IN  IF token.type \in {"variable", "linebreak"}
             THEN ReconstructLoop(structure, k + 1, cleanReplacement,
                      [acc EXCEPT !.result = @ \o token.value])
             ELSE IF segmentLength > 0 /\ idx < Len(cleanReplacement)
             THEN ReconstructLoop(structure, k + 1, cleanReplacement,
                      [result |-> acc.result \o portion,
                       replacementIndex |-> idx + Len(portion)])
             ELSE ReconstructLoop(structure, k + 1, cleanReplacement, acc)

\* secondAttempt.ts reconstructWithFormatting
reconstructWithFormatting(originalText, replacementText) ==
    LET structure == extractStructure(originalText)
        cleanReplacement == CleanContent(replacementText)
        r == ReconstructLoop(structure, 1, cleanReplacement,
                 [result |-> <<>>, replacementIndex |-> 0])
    IN  IF r.replacementIndex < Len(cleanReplacement)
        THEN r.result \o Substring(cleanReplacement, r.replacementIndex,
                                   Len(cleanReplacement))
        ELSE r.result

-----------------------------------------------------------------------------
(* computeDiff, findKanaKanjiMappings, applyMappingsToXml *)

Max(a, b) == IF a >= b THEN a ELSE b

\* The LCS table: lcs[i][j] for the first i characters of kana and the first
\* j of kanji.
LcsTable(kana, kanji) ==
    LET lcs[i \in 0..Len(kana), j \in 0..Len(kanji)] ==
            IF i = 0 \/ j = 0 THEN 0
            ELSE IF kana[i] = kanji[j] THEN lcs[i - 1, j - 1] + 1
            ELSE Max(lcs[i - 1, j], lcs[i, j - 1])
    IN  lcs

DiffSegment(kana, kanji) == [kana |-> kana, kanji |-> kanji]

\* A plausible slip: the pending characters, collected backwards, are saved
\* without being reversed.
PendingSegment_unreversed(curKana, curKanji) == DiffSegment(curKana, curKanji)

\* { kana: currentKana.split('').reverse().join(''), kanji: ... }
PendingSegment(curKana, curKanji) ==
    DiffSegment(Reverse(curKana), Reverse(curKanji))

\* if (currentKana || currentKanji) segments.unshift(pending)
FlushPending(segs, curKana, curKanji) ==
    IF curKana # <<>> \/ curKanji # <<>>
    THEN <<PendingSegment(curKana, curKanji)>> \o segs
    ELSE segs

\* The three branches of the backtracking loop at (i, j).
BranchMatch(kana, kanji, i, j) == i > 0 /\ j > 0 /\ kana[i] = kanji[j]

BranchKanji_strict(kana, kanji, i, j) ==
    /\ ~BranchMatch(kana, kanji, i, j)
    /\ j > 0
    /\ IF i = 0 THEN TRUE
       ELSE LcsTable(kana, kanji)[i, j - 1] > LcsTable(kana, kanji)[i - 1, j]

BranchKanji(kana, kanji, i, j) ==
    /\ ~BranchMatch(kana, kanji, i, j)
    /\ j > 0
    /\ IF i = 0 THEN TRUE
       ELSE LcsTable(kana, kanji)[i, j - 1] >= LcsTable(kana, kanji)[i - 1, j]

BranchKana(kana, kanji, i, j) ==
    ~BranchMatch(kana, kanji, i, j) /\ ~BranchKanji(kana, kanji, i, j)

\* One iteration of while (i > 0 || j > 0) on the state
\* [i, j, currentKana, currentKanji, segments].
BacktrackStep(kana, kanji, st) ==
    IF BranchMatch(kana, kanji, st.i, st.j)
    THEN [i |-> st.i - 1, j |-> st.j - 1,
          currentKana |-> <<>>, currentKanji |-> <<>>,
          segments |-> <<DiffSegment(<<kana[st.i]>>, <<kanji[st.j]>>)>>
                       \o FlushPending(st.segments, st.currentKana, st.currentKanji)]
    ELSE IF BranchKanji(kana, kanji, st.i, st.j)
    THEN [st EXCEPT !.currentKanji = Append(@, kanji[st.j]), !.j = @ - 1]
    ELSE [st EXCEPT !.currentKana = Append(@, kana[st.i]), !.i = @ - 1]

RECURSIVE BacktrackAll(_, _, _)
BacktrackAll(kana, kanji, st) ==
    IF st.i > 0 \/ st.j > 0
    THEN BacktrackAll(kana, kanji, BacktrackStep(kana, kanji, st))
    ELSE st

\* A plausible slip: every segment is merged into its predecessor, changed or
\* not.
MergeOne_always(mergedSoFar, seg) ==
    IF Len(mergedSoFar) > 0
    THEN [mergedSoFar EXCEPT ![Len(mergedSoFar)] =
             DiffSegment(@.kana \o seg.kana, @.kanji \o seg.kanji)]
    ELSE Append(mergedSoFar, seg)

\* One iteration of the merge loop: a changed segment joins a changed
\* predecessor, anything else is pushed.
MergeOne(mergedSoFar, seg) ==
    IF /\ Len(mergedSoFar) > 0
       /\ mergedSoFar[Len(mergedSoFar)].kana # mergedSoFar[Len(mergedSoFar)].kanji
       /\ seg.kana # seg.kanji
    THEN [mergedSoFar EXCEPT ![Len(mergedSoFar)] =
             DiffSegment(@.kana \o seg.kana, @.kanji \o seg.kanji)]
    ELSE Append(mergedSoFar, seg)

RECURSIVE MergeSegments(_, _)
MergeSegments(mergedSoFar, segs) ==
    IF segs = <<>> THEN mergedSoFar
    ELSE MergeSegments(MergeOne(mergedSoFar, Head(segs)), Tail(segs))

\* computeDiff, from the table to the merged segments.
computeDiff(kana, kanji) ==
    LET st == BacktrackAll(kana, kanji,
                  [i |-> Len(kana), j |-> Len(kanji),
                   currentKana |-> <<>>, currentKanji |-> <<>>,
                   segments |-> <<>>])
    IN  MergeSegments(<<>>, FlushPending(st.segments, st.currentKana, st.currentKanji))

\* findKanaKanjiMappings: the changed segments with a non-empty kana half.
findKanaKanjiMappings(kanaText, kanjiText) ==
    SelectSeq(computeDiff(normalizeForComparison(kanaText),
                          normalizeForComparison(kanjiText)),
              LAMBDA diff : diff.kana # diff.kanji /\ Len(diff.kana) > 0)

RECURSIVE applyMappingsToXml(_, _)
\* Each mapping once, in order: the first occurrence of its kana, if any.
applyMappingsToXml(text, maps) ==
    IF maps = <<>> THEN text
    ELSE applyMappingsToXml(
             IF Includes(text, Head(maps).kana)
             THEN ReplaceFirst(text, Head(maps).kana, Head(maps).kanji)
             ELSE text,
             Tail(maps))

-----------------------------------------------------------------------------
(* The lookup map: a JavaScript Map, kept as its entries in insertion order *)

\* null and undefined: one-element sequences no string of the model equals.
Null == <<"<null>">>
Undefined == <<"<undefined>">>
\* if (x) for a string, null or undefined
Truthy(x) == x # Null /\ x # Undefined /\ x # <<>>

MapHas(map, key) == \E k \in 1..Len(map) : map[k].key = key

MapGet(map, key) ==
    IF MapHas(map, key)
    THEN map[CHOOSE k \in 1..Len(map) : map[k].key = key].value
    ELSE Undefined

\* map.set(key, value): a new key is appended, a known key keeps its place.
MapSet(map, key, value) ==
    IF MapHas(map, key)
    THEN [k \in 1..Len(map) |->
             IF map[k].key = key THEN [key |-> key, value |-> value] ELSE map[k]]
    ELSE Append(map, [key |-> key, value |-> value])

\* if (normalizedKana) map.set(normalizedKana, kanjiLine)
SetIfKey(map, key, value) ==
    IF key # <<>> THEN MapSet(map, key, value) ELSE map

\* if (normalized && !map.has(normalized)) map.set(normalized, value)
InsertIfAbsent(map, key, value) ==
    IF key # <<>> /\ ~MapHas(map, key) THEN MapSet(map, key, value) ELSE map

-----------------------------------------------------------------------------
(* buildKanaToKanjiMap (second attempt) *)

\* lookAhead <= 5
MaxLookAhead == 5

Min(a, b) == IF a <= b THEN a ELSE b

Attempt(kanaPart, kanjiPart) ==
    [key |-> normalizeForComparison_second(kanaPart), value |-> kanjiPart]

\* The insertion attempts of two lines split on delim, when the counts agree
\* (and exceed 1 for the line-break split): the pairs with both halves
\* non-empty, in order.
SegmentAttempts(kanaLine, kanjiLine, delim, moreThanOne) ==
    LET kanaSegments == Split(kanaLine, delim)
        kanjiSegments == Split(kanjiLine, delim)
        both == [j \in 1..Min(Len(kanaSegments), Len(kanjiSegments)) |->
                    [kana |-> kanaSegments[j], kanji |-> kanjiSegments[j]]]
        kept == SelectSeq(both, LAMBDA p : p.kana # <<>> /\ p.kanji # <<>>)
    IN  IF /\ Len(kanaSegments) = Len(kanjiSegments)
           /\ (moreThanOne => Len(kanaSegments) > 1)
        THEN [j \in 1..Len(kept) |-> Attempt(kept[j].kana, kept[j].kanji)]
        ELSE <<>>

\* The insertion attempts for the combinations of line i with its next
\* lookAhead lines, lookAhead = 1..5 (i is 1-based).
ComboAttempts(kLines, jLines, i) ==
    LET minLength == Min(Len(kLines), Len(jLines))
        las == {la \in 1..MaxLookAhead :
                   /\ i + la <= minLength
                   /\ \A j \in 1..la : kLines[i + j] # <<>> /\ jLines[i + j] # <<>>}
        combo(la) == Attempt(Join(SubSeq(kLines, i, i + la), DoubleLineBreak),
                             Join(SubSeq(jLines, i, i + la), DoubleLineBreak))
        all == [la \in 1..MaxLookAhead |-> IF la \in las THEN <<combo(la)>> ELSE <<>>]
    IN  Flatten(all)

\* All insertion attempts of loop iteration i (1-based), in program order.
BuildAttempts(kLines, jLines, i) ==
    LET kanaLine == kLines[i]
        kanjiLine == jLines[i]
    IN  IF kanaLine = <<>> \/ kanjiLine = <<>> THEN <<>>
        ELSE <<Attempt(kanaLine, kanjiLine)>>
             \o (IF Includes(kanaLine, ControlC)
                 THEN SegmentAttempts(kanaLine, kanjiLine, ControlC, FALSE)
                 ELSE <<>>)
             \o (IF Includes(kanaLine, LineBreak) /\ ~Includes(kanaLine, ControlC)
                 THEN SegmentAttempts(kanaLine, kanjiLine, LineBreak, TRUE)
                 ELSE <<>>)
             \o ComboAttempts(kLines, jLines, i)

RECURSIVE InsertAll(_, _)
InsertAll(map, attempts) ==
    IF attempts = <<>> THEN map
    ELSE InsertAll(InsertIfAbsent(map, Head(attempts).key, Head(attempts).value),
                   Tail(attempts))

\* One iteration of the for loop over the corpus lines.
BuildIteration(map, kLines, jLines, i) ==
    InsertAll(map, BuildAttempts(kLines, jLines, i))

RECURSIVE BuildFrom(_, _, _, _)
BuildFrom(map, kLines, jLines, i) ==
    IF i > Min(Len(kLines), Len(jLines)) THEN map
    ELSE BuildFrom(BuildIteration(map, kLines, jLines, i), kLines, jLines, i + 1)

buildKanaToKanjiMap(kLines, jLines) == BuildFrom(<<>>, kLines, jLines, 1)

-----------------------------------------------------------------------------
(* findKanjiVersion (second attempt) *)

\* The trimmed segment is blank: if (!trimmed)
Blank(segment) == Trim(segment) = <<>>

RECURSIVE SegmentedLoop(_, _, _)
\* if (kanjiSegment) kanjiSegments.push(kanjiSegment) else allFound = false
PushFound(rest, map, kanjiSegments, kanjiSegment) ==
    IF Truthy(kanjiSegment)
    THEN SegmentedLoop(rest, map, Append(kanjiSegments, kanjiSegment))
    ELSE Null

\* for (const segment of segments): the replaced segments, or Null as soon
\* as a non-blank segment is not found.
SegmentedLoop(segs, map, kanjiSegments) ==
    IF segs = <<>> THEN kanjiSegments
    ELSE IF Blank(Head(segs))
    THEN SegmentedLoop(Tail(segs), map, Append(kanjiSegments, Head(segs)))
    ELSE PushFound(Tail(segs), map, kanjiSegments,
                   MapGet(map, normalizeForComparison_second(Trim(Head(segs)))))

\* if (allFound && kanjiSegments.length > 0) return kanjiSegments.join(delimiter)
JoinFound(kanjiSegments, delimiter) ==
    IF kanjiSegments # Null /\ Len(kanjiSegments) > 0
    THEN Join(kanjiSegments, delimiter)
    ELSE Null

\* A segment's replacement, or the segment itself when it has none.
FoundOrKept(segment, kanjiSegment) ==
    IF Truthy(kanjiSegment) THEN kanjiSegment ELSE segment

\* A plausible slip: a segment that is not found is kept as it is instead of
\* failing the whole match.
trySegmentedMatch_keepMissing(text, delimiter, map) ==
    Join([k \in 1..Len(Split(text, delimiter)) |->
             FoundOrKept(Split(text, delimiter)[k],
                 MapGet(map, normalizeForComparison_second(
                                 Trim(Split(text, delimiter)[k])))) ],
         delimiter)

trySegmentedMatch(text, delimiter, map) ==
    JoinFound(SegmentedLoop(Split(text, delimiter), map, <<>>), delimiter)

\* kanaKey.length < 20 is skipped
FuzzyMinKeyLength == 20
\* normalized.length > 50
FuzzyMinTextLength == 50
\* segments[0].length < 20
ShortPrefixLimit == 20
\* segments.length <= 10
MaxSingleBreakSegments == 10

RECURSIVE SortByStart(_)
\* The sorted matches with one more inserted after those that do not start
\* later.
InsertSorted(sorted, last) ==
    SelectSeq(sorted, LAMBDA m : m.start <= last.start)
    \o <<last>>
    \o SelectSeq(sorted, LAMBDA m : m.start > last.start)

\* matches.sort((a, b) => a.start - b.start): a stable insertion sort.
SortByStart(matches) ==
    IF Len(matches) <= 1 THEN matches
    ELSE InsertSorted(SortByStart(SubSeq(matches, 1, Len(matches) - 1)),
                      matches[Len(matches)])

RECURSIVE SumLengths(_)
SumLengths(matches) ==
    IF matches = <<>> THEN 0
    ELSE (Head(matches).end - Head(matches).start) + SumLengths(Tail(matches))

\* matches.push({ start: index, end: index + kanaKey.length, kana, kanji })
FuzzyMatch(index, entry) ==
    [start |-> index, end |-> index + Len(entry.key),
     kana |-> entry.key, kanji |-> entry.value]

FuzzyMatches_any(normalized, map) ==
    [k \in 1..Len(map) |->
        IF Includes(normalized, map[k].key)
        THEN <<FuzzyMatch(IndexOf(normalized, map[k].key) - 1, map[k])>>
        ELSE <<>>]

\* The index entries of length >= 20 that occur in normalized, in index order.
FuzzyMatches(normalized, map) ==
    [k \in 1..Len(map) |->
        IF Len(map[k].key) >= FuzzyMinKeyLength /\ Includes(normalized, map[k].key)
        THEN <<FuzzyMatch(IndexOf(normalized, map[k].key) - 1, map[k])>>
        ELSE <<>>]

\* if (matches.length > 0 && coverage >= normalized.length * 0.6)
\*     return the kanji of the last of the sorted matches
FuzzyResult(matches, normalizedLength) ==
    IF Len(matches) > 0 /\ SumLengths(matches) * 10 >= normalizedLength * 6
    THEN matches[Len(matches)].kanji
    ELSE Null

FuzzyOn(normalized, map) ==
    FuzzyResult(SortByStart(Flatten(FuzzyMatches(normalized, map))), Len(normalized))

tryFuzzyMultilineMatch(text, map) == FuzzyOn(normalizeForComparison_second(text), map)

Found(result, multi, partial) ==
    [result |-> result, multiSegmentMatches |-> multi, partialMatches |-> partial]

\* if (result) { the counters are incremented; return result } else go on
Succeeded(result, multi, partial, otherwise) ==
    IF Truthy(result) THEN Found(result, multi, partial) ELSE otherwise

\* Strategy 2: split on the double line break.
Strategy2(kanaText, map) ==
    IF Includes(kanaText, DoubleLineBreak)
    THEN trySegmentedMatch(kanaText, DoubleLineBreak, map)
    ELSE Null

\* Strategy 3: split on the single line break, 2 to 10 segments.
Strategy3(kanaText, map) ==
    IF /\ Includes(kanaText, LineBreak)
       /\ Len(Split(kanaText, LineBreak)) > 1
       /\ Len(Split(kanaText, LineBreak)) <= MaxSingleBreakSegments
    THEN trySegmentedMatch(kanaText, LineBreak, map)
    ELSE Null

\* A plausible slip: the match of the second segment is returned without the
\* original prefix.
Reconstructed_noPrefix(prefix, mainMatch) ==
    IF Truthy(mainMatch) THEN mainMatch ELSE Null

\* if (mainMatch) reconstructed = segments[0] + '\\n' + mainMatch
Reconstructed(prefix, mainMatch) ==
    IF Truthy(mainMatch) THEN prefix \o LineBreak \o mainMatch ELSE Null

\* Strategy 3b on the segments of the single line break split.
ShortPrefixMatch(segs, map) ==
    IF Len(segs) = 2
    THEN IF Len(segs[1]) < ShortPrefixLimit
         THEN Reconstructed(segs[1],
                  MapGet(map, normalizeForComparison_second(segs[2])))
         ELSE Null
    ELSE Null

\* Strategy 3b: a short prefix before the only line break.
Strategy3b(kanaText, map) ==
    IF Includes(kanaText, LineBreak)
    THEN ShortPrefixMatch(Split(kanaText, LineBreak), map)
    ELSE Null

\* Strategy 4: fuzzy matching of a long text with double line breaks.
Strategy4(kanaText, map) ==
    IF /\ Len(normalizeForComparison_second(kanaText)) > FuzzyMinTextLength
       /\ Includes(kanaText, DoubleLineBreak)
    THEN tryFuzzyMultilineMatch(kanaText, map)
    ELSE Null

\* Strategies 3, 3b and 4 of findKanjiVersion, tried after 1 and 2 failed.
LaterStrategies(kanaText, map) ==
    Succeeded(Strategy3(kanaText, map), 0, 1,
        Succeeded(Strategy3b(kanaText, map), 0, 1,
            Succeeded(Strategy4(kanaText, map), 0, 1, Found(Null, 0, 0))))

\* Strategy 2 and what follows it.
SegmentedStrategies(kanaText, map) ==
    Succeeded(Strategy2(kanaText, map), 1, 0, LaterStrategies(kanaText, map))

\* if (!normalized) return null; the direct lookup; then the other strategies.
DirectOr(normalized, map, otherwise) ==
    IF normalized = <<>> THEN Found(Null, 0, 0)
    ELSE Succeeded(MapGet(map, normalized), 0, 0, otherwise)

\* A plausible slip: the segmented strategies are tried before the direct
\* lookup.
findKanjiVersion_segmentedFirst(kanaText, map) ==
    IF normalizeForComparison_second(kanaText) = <<>> THEN Found(Null, 0, 0)
    ELSE Succeeded(SegmentedStrategies(kanaText, map).result,
                   SegmentedStrategies(kanaText, map).multiSegmentMatches,
                   SegmentedStrategies(kanaText, map).partialMatches,
                   DirectOr(normalizeForComparison_second(kanaText), map,
                            Found(Null, 0, 0)))

\* findKanjiVersion: the value returned and the increments it makes to
\* stats.multiSegmentMatches and stats.partialMatches.
findKanjiVersion(kanaText, map) ==
    DirectOr(normalizeForComparison_second(kanaText), map,
             SegmentedStrategies(kanaText, map))

\* /[\u3040-\u309F\u30A0-\u30FF]/.test(text)
KanaBlock == Hiragana \cup Katakana \cup {"<choon>", "<dakuten>"}
containsKana(text) == \E k \in 1..Len(text) : text[k] \in KanaBlock

-----------------------------------------------------------------------------
(* Inputs *)

Variable00 == <<"{", "0", "0", "}">>
Variable01 == <<"{", "0", "1", "}">>

\* All concatenations of at most n pieces.
Texts(pieces, n) == {Flatten(ps) : ps \in SeqsUpTo(pieces, n)}

\* The state of a part of the program that a specification does not run.
IdleNorm == nText = <<>> /\ nOnce = <<>> /\ nTwice = <<>> /\ nPc = "idle"
IdleTok == tText = <<>> /\ tTokens = <<>> /\ tPc = "idle"
IdleDiff ==
    /\ cleanKana = <<>> /\ cleanKanji = <<>> /\ lcsI = 0 /\ lcsJ = 0
    /\ currentKana = <<>> /\ currentKanji = <<>>
    /\ segments = <<>> /\ merged = <<>> /\ dPc = "idle"
IdleLcs ==
    /\ kanaCorpus = <<>> /\ kanjiCorpus = <<>> /\ xmlText = <<>>
    /\ xmlMatches = <<>> /\ converted = <<>> /\ lPc = "idle"
IdleBuild ==
    /\ bKanaLines = <<>> /\ bKanjiLines = <<>> /\ bI = 0
    /\ bMap = <<>> /\ bLog = <<>> /\ bPc = "idle"
ZeroStats ==
    [totalStrings |-> 0, skippedNoKana |-> 0, processedWithKana |-> 0,
     foundMatches |-> 0, notFoundMatches |-> 0, multiSegmentMatches |-> 0,
     partialMatches |-> 0]
IdleMatch ==
    /\ mKanaLines = <<>> /\ mKanjiLines = <<>> /\ mLookupMap = <<>>
    /\ mLines = <<>> /\ mStats = ZeroStats /\ mText = <<>> /\ mKanjiText = Null
    /\ mFormattedKanji = <<>> /\ mPc = "idle"
    /\ mDoc = <<>> /\ mOutput = <<>>
IdleLlm ==
    /\ llmVariant = "idle" /\ llmEntries = <<>> /\ llmI = 0
    /\ llmBatches = <<>> /\ llmPending = {} /\ llmRetry = 0
    /\ llmConversions = {} /\ llmPc = "idle"
IdleRun ==
    /\ kanaLines = <<>> /\ kanjiLines = <<>> /\ xmlContent = <<>>
    /\ xmlLines = <<>> /\ xmlStrings = <<>> /\ corpusI = 0
    /\ xmlMatchesMap = <<>> /\ modifiedXml = <<>> /\ outputContent = <<>>
    /\ llmInputStrings = <<>> /\ runPc = "idle"
IdleCall ==
    /\ useGemini = FALSE /\ noMatchLines = <<>> /\ loopI = 0
    /\ allConversions = {} /\ callFrames = <<>> /\ callRequests = 0
    /\ callReturned = {} /\ waitedMs = -1 /\ callPc = "idle"

-----------------------------------------------------------------------------
(* SpecNorm: normalizeForComparison applied to a string, then to its result *)

MaxNormPieces == 3

NormPieces ==
    {<<"<hira:a>">>, <<"<hira:ka>">>, <<"<dakuten>">>, <<"<openq>">>,
     <<"<ellipsis>">>, <<".">>, <<" ">>, <<"{">>, <<Backslash>>, <<"n">>,
     Variable00, LineBreak}

InitNorm ==
    /\ nText \in Texts(NormPieces, MaxNormPieces)
    /\ nOnce = <<>> /\ nTwice = <<>> /\ nPc = "input"
    /\ IdleTok /\ IdleDiff /\ IdleLcs /\ IdleBuild /\ IdleMatch /\ IdleLlm
    /\ IdleRun /\ IdleCall

NormalizeOnce ==
    /\ nPc = "input"
    /\ nOnce' = normalizeForComparison(nText)
    /\ nPc' = "once"
    /\ UNCHANGED <<llmVars, runVars, callVars, nText, nTwice, tokVars, diffVars, lcsVars, buildVars, matchVars>>

NormalizeTwice ==
    /\ nPc = "once"
    /\ nTwice' = normalizeForComparison(nOnce)
    /\ nPc' = "twice"
    /\ UNCHANGED <<llmVars, runVars, callVars, nText, nOnce, tokVars, diffVars, lcsVars, buildVars, matchVars>>

NextNorm == NormalizeOnce \/ NormalizeTwice

SpecNorm == InitNorm /\ [][NextNorm]_vars

\* C2: the canonical form is idempotent: normalizing the result of
\* normalizeForComparison again changes nothing.
C2_Idempotent == nPc = "twice" => nTwice = nOnce

-----------------------------------------------------------------------------
(* SpecTok: a raw line through each of the three tokenizers *)

MaxTokPieces == 4

TokPieces ==
    {<<"{">>, <<"0">>, <<"}">>, <<Backslash>>, <<"n">>, <<"<hira:a>">>,
     <<"<openq>">>, Variable00, LineBreak}

InitTok ==
    /\ tText \in Texts(TokPieces, MaxTokPieces)
    /\ tTokens = <<>> /\ tPc = "input"
    /\ IdleNorm /\ IdleDiff /\ IdleLcs /\ IdleBuild /\ IdleMatch /\ IdleLlm
    /\ IdleRun /\ IdleCall

TokenizeStructure ==
    /\ tPc = "input"
    /\ tTokens' = extractStructure(tText)
    /\ tPc' = "extractStructure"
    /\ UNCHANGED <<llmVars, runVars, callVars, tText, normVars, diffVars, lcsVars, buildVars, matchVars>>

TokenizeStructureFirst ==
    /\ tPc = "input"
    /\ tTokens' = extractStructure_first(tText)
    /\ tPc' = "extractStructure_first"
    /\ UNCHANGED <<llmVars, runVars, callVars, tText, normVars, diffVars, lcsVars, buildVars, matchVars>>

TokenizeFormatting ==
    /\ tPc = "input"
    /\ tTokens' = extractFormatting(tText)
    /\ tPc' = "extractFormatting"
    /\ UNCHANGED <<llmVars, runVars, callVars, tText, normVars, diffVars, lcsVars, buildVars, matchVars>>

NextTok == TokenizeStructure \/ TokenizeStructureFirst \/ TokenizeFormatting

SpecTok == InitTok /\ [][NextTok]_vars

\* C3: tokenizer round trip: the values of the tokens returned by
\* extractStructure (both versions) and extractFormatting, concatenated in
\* order, are the raw line.
C3_RoundTrip == tPc # "input" => TokenValues(tTokens) = tText

\* A line with text, a variable and a line break has been tokenized.
C3_Witness ==
    /\ tPc = "extractStructure"
    /\ \E a, b, c \in 1..Len(tTokens) :
          /\ tTokens[a].type = "text"
          /\ tTokens[b].type = "variable"
          /\ tTokens[c].type = "linebreak"
    /\ tTokens[Len(tTokens)].type = "text"

-----------------------------------------------------------------------------
(* buildKanaToKanjiMap (first attempt) *)

\* The first attempt's own normalizeForComparison: tags, variables, control
\* and line-break marks, whitespace, dashes, trim.
normalizeForComparison_first(text) ==
    LET s1 == StripVarTags(StripVariables(StripXmlTags(text)))
        s2 == ReplaceAll(ReplaceAll(s1, ControlC, <<>>), LineBreak, <<>>)
        s3 == RemoveClass(s2, Whitespace \cup {"<LF>", "<ideosp>"})
        dashes == {"<choon>", "<fwhyphen>", "<hyphen>", "<minus>", "<endash>",
                   "<emdash>"}
        s4 == [k \in 1..Len(s3) |-> IF s3[k] \in dashes THEN "<choon>" ELSE s3[k]]
    IN  Trim(s4)

Attempt_first(kanaPart, kanjiPart) ==
    [key |-> normalizeForComparison_first(kanaPart), value |-> kanjiPart]

\* The sub-segment attempts of a line holding the control mark: both lines
\* split on it, the counts equal, each half trimmed and non-empty.
SegmentAttempts_first(kanaLine, kanjiLine) ==
    LET kanaSegments == Split(kanaLine, ControlC)
        kanjiSegments == Split(kanjiLine, ControlC)
        both == [j \in 1..Min(Len(kanaSegments), Len(kanjiSegments)) |->
                    [kana |-> Trim(kanaSegments[j]), kanji |-> Trim(kanjiSegments[j])]]
        kept == SelectSeq(both, LAMBDA p : p.kana # <<>> /\ p.kanji # <<>>)
    IN  IF Includes(kanaLine, ControlC) /\ Len(kanaSegments) = Len(kanjiSegments)
        THEN [j \in 1..Len(kept) |-> Attempt_first(kept[j].kana, kept[j].kanji)]
        ELSE <<>>

\* All insertion attempts of loop iteration i (1-based): the full line, then
\* its sub-segments.
BuildAttempts_first(kLines, jLines, i) ==
    LET kanaLine == Trim(kLines[i])
        kanjiLine == Trim(jLines[i])
    IN  IF kanaLine = <<>> \/ kanjiLine = <<>> THEN <<>>
        ELSE <<Attempt_first(kanaLine, kanjiLine)>>
             \o SegmentAttempts_first(kanaLine, kanjiLine)

\* One iteration of the first attempt's loop: the full line is set, the
\* sub-segments are inserted if absent.
BuildIteration_first(map, kLines, jLines, i) ==
    LET attempts == BuildAttempts_first(kLines, jLines, i)
    IN  IF attempts = <<>> THEN map
        ELSE InsertAll(SetIfKey(map, Head(attempts).key, Head(attempts).value),
                       Tail(attempts))

-----------------------------------------------------------------------------
(* SpecDiff: computeDiff(kana, kanji), one backtracking iteration per step *)

MaxDiffLen == 3

DiffAlphabet == {"<hira:a>", "<hira:i>", "<kanji:a>"}

BacktrackState ==
    [i |-> lcsI, j |-> lcsJ, currentKana |-> currentKana,
     currentKanji |-> currentKanji, segments |-> segments]

InitDiff ==
    /\ cleanKana \in SeqsUpTo(DiffAlphabet, MaxDiffLen)
    /\ cleanKanji \in SeqsUpTo(DiffAlphabet, MaxDiffLen)
    /\ lcsI = Len(cleanKana) /\ lcsJ = Len(cleanKanji)
    /\ currentKana = <<>> /\ currentKanji = <<>>
    /\ segments = <<>> /\ merged = <<>> /\ dPc = "backtrack"
    /\ IdleNorm /\ IdleTok /\ IdleLcs /\ IdleBuild /\ IdleMatch /\ IdleLlm
    /\ IdleRun /\ IdleCall

\* The effect of one loop iteration on the program's variables.
Backtrack ==
    LET st == BacktrackStep(cleanKana, cleanKanji, BacktrackState)
    IN  /\ lcsI' = st.i /\ lcsJ' = st.j
        /\ currentKana' = st.currentKana /\ currentKanji' = st.currentKanji
        /\ segments' = st.segments
        /\ UNCHANGED <<llmVars, runVars, callVars, cleanKana, cleanKanji, merged, dPc,
                       normVars, tokVars, lcsVars, buildVars, matchVars>>

\* if (i > 0 && j > 0 && kana[i - 1] === kanji[j - 1])
BacktrackMatch ==
    /\ dPc = "backtrack" /\ (lcsI > 0 \/ lcsJ > 0)
    /\ BranchMatch(cleanKana, cleanKanji, lcsI, lcsJ)
    /\ Backtrack

\* else if (j > 0 && (i === 0 || lcs[i][j - 1] >= lcs[i - 1][j]))
BacktrackKanji ==
    /\ dPc = "backtrack" /\ (lcsI > 0 \/ lcsJ > 0)
    /\ BranchKanji(cleanKana, cleanKanji, lcsI, lcsJ)
    /\ Backtrack

\* else
BacktrackKana ==
    /\ dPc = "backtrack" /\ (lcsI > 0 \/ lcsJ > 0)
    /\ BranchKana(cleanKana, cleanKanji, lcsI, lcsJ)
    /\ Backtrack

\* After the loop: the remaining pending segment, then the merge pass.
FinishDiff ==
    /\ dPc = "backtrack" /\ lcsI = 0 /\ lcsJ = 0
    /\ segments' = FlushPending(segments, currentKana, currentKanji)
    /\ merged' = MergeSegments(<<>>, segments')
    /\ dPc' = "done"
    /\ UNCHANGED <<llmVars, runVars, callVars, cleanKana, cleanKanji, lcsI, lcsJ, currentKana, currentKanji,
                   normVars, tokVars, lcsVars, buildVars, matchVars>>

NextDiff == BacktrackMatch \/ BacktrackKanji \/ BacktrackKana \/ FinishDiff

SpecDiff == InitDiff /\ [][NextDiff]_vars

KanaHalves(segs) == Flatten([k \in 1..Len(segs) |-> segs[k].kana])
KanjiHalves(segs) == Flatten([k \in 1..Len(segs) |-> segs[k].kanji])

\* C5: diff reassembly: the kana halves of the segments computeDiff returns,
\* concatenated in order, are its first argument, and the kanji halves its
\* second.
C5_Reassembly ==
    dPc = "done" =>
        /\ merged = computeDiff(cleanKana, cleanKanji)
        /\ KanaHalves(merged) = cleanKana
        /\ KanjiHalves(merged) = cleanKanji

\* A diff with an unchanged segment and a changed one of two characters on
\* each side.
C5_Witness ==
    /\ dPc = "done"
    /\ \E a, b \in 1..Len(merged) :
          /\ merged[a].kana = merged[a].kanji
          /\ merged[b].kana # merged[b].kanji
          /\ Len(merged[b].kana) >= 2 /\ Len(merged[b].kanji) >= 2

\* C6 as stated: computeDiff(x, x) for a non-empty x is one unchanged
\* segment, both halves x.
C6_SingleSegment ==
    (dPc = "done" /\ cleanKana = cleanKanji /\ cleanKana # <<>>) =>
        merged = <<DiffSegment(cleanKana, cleanKanji)>>

\* C6 as the code has it: computeDiff(x, x) is one unchanged segment per
\* character of x, in order (a single segment only when x has one
\* character); equal characters are never merged.
C6_UnitSegments ==
    (dPc = "done" /\ cleanKana = cleanKanji /\ cleanKana # <<>>) =>
        merged = [k \in 1..Len(cleanKana) |->
                     DiffSegment(<<cleanKana[k]>>, <<cleanKana[k]>>)]

\* computeDiff(x, x) has finished for an x of at least two characters.
C6_Witness ==
    dPc = "done" /\ cleanKana = cleanKanji /\ Len(cleanKana) >= 2

-----------------------------------------------------------------------------
(* SpecLcs: the segment-mapping run (main, steps 3 to 6) on one corpus      *)
(* entry and one XML string                                                *)

MaxLcsLen == 3

\* if (normalizedKana.length < 3) continue
MinCorpusLength == 3

KanaAlphabet == {"1", "<hira:a>"}
KanjiAlphabet == {"<kanji:1>", "<hira:a>"}

\* text with piece inserted after its first k characters
InsertAt(text, k, piece) ==
    SubSeq(text, 1, k) \o piece \o SubSeq(text, k + 1, Len(text))

\* The XML strings that display a corpus line: the line itself, or the line
\* with one variable or one line break in it.
XmlVariants(text) ==
    {text} \cup {InsertAt(text, k, piece) :
                    k \in 0..Len(text), piece \in {Variable01, LineBreak}}

\* is a a subsequence of b
RECURSIVE IsSubsequence(_, _)
IsSubsequence(a, b) ==
    IF a = <<>> THEN TRUE
    ELSE IF b = <<>> THEN FALSE
    ELSE IF Head(a) = Head(b) THEN IsSubsequence(Tail(a), Tail(b))
    ELSE IsSubsequence(a, Tail(b))

InitLcs ==
    /\ kanaCorpus \in SeqsUpTo(KanaAlphabet, MaxLcsLen)
    /\ kanjiCorpus \in SeqsUpTo(KanjiAlphabet, MaxLcsLen)
    /\ xmlText \in XmlVariants(kanaCorpus)
    /\ xmlMatches = <<>> /\ converted = <<>> /\ lPc = "step4"
    /\ IdleNorm /\ IdleTok /\ IdleDiff /\ IdleBuild /\ IdleMatch /\ IdleLlm
    /\ IdleRun /\ IdleCall

\* Step 3 keeps the XML string, and step 4 reaches findKanaKanjiMappings for
\* it with this corpus entry.
Step4Reaches ==
    /\ containsKana(xmlText)
    /\ kanaCorpus # <<>> /\ kanjiCorpus # <<>>
    /\ normalizeForComparison(kanaCorpus) # normalizeForComparison(kanjiCorpus)
    /\ Len(normalizeForComparison(kanaCorpus)) >= MinCorpusLength
    /\ normalizeForComparison(xmlText) = normalizeForComparison(kanaCorpus)

\* Step 4, the XML string matches: xmlMatches.set(lineNum, mappings)
Step4Match ==
    /\ lPc = "step4" /\ Step4Reaches
    /\ findKanaKanjiMappings(kanaCorpus, kanjiCorpus) # <<>>
    /\ xmlMatches' = findKanaKanjiMappings(kanaCorpus, kanjiCorpus)
    /\ lPc' = "step5"
    /\ UNCHANGED <<llmVars, runVars, callVars, kanaCorpus, kanjiCorpus, xmlText, converted,
                   normVars, tokVars, diffVars, buildVars, matchVars>>

\* Step 4, nothing is recorded for the XML string.
Step4NoMatch ==
    /\ lPc = "step4"
    /\ ~(Step4Reaches /\ findKanaKanjiMappings(kanaCorpus, kanjiCorpus) # <<>>)
    /\ lPc' = "step6"
    /\ UNCHANGED <<llmVars, runVars, callVars, kanaCorpus, kanjiCorpus, xmlText, xmlMatches, converted,
                   normVars, tokVars, diffVars, buildVars, matchVars>>

\* Step 5: converted = applyMappingsToXml(xmlStr.text, mappings)
Step5Apply ==
    /\ lPc = "step5"
    /\ converted' = applyMappingsToXml(xmlText, xmlMatches)
    /\ lPc' = "applied"
    /\ UNCHANGED <<llmVars, runVars, callVars, kanaCorpus, kanjiCorpus, xmlText, xmlMatches,
                   normVars, tokVars, diffVars, buildVars, matchVars>>

\* Step 6 for a line without mappings: the line is written as it is.
Step6PassThrough ==
    /\ lPc = "step6"
    /\ converted' = xmlText
    /\ lPc' = "unchanged"
    /\ UNCHANGED <<llmVars, runVars, callVars, kanaCorpus, kanjiCorpus, xmlText, xmlMatches,
                   normVars, tokVars, diffVars, buildVars, matchVars>>

NextLcs == Step4Match \/ Step4NoMatch \/ Step5Apply \/ Step6PassThrough

SpecLcs == InitLcs /\ [][NextLcs]_vars

\* C1: segment-mapping mode preserves structure: once the mappings of a
\* matching corpus pair have been applied to an XML line, every variable and
\* line-break token of the line is in the output, unchanged and in the same
\* order.
C1_StructurePreserved ==
    lPc = "applied" =>
        IsSubsequence(StructuralTokens(extractStructure(xmlText)),
                      StructuralTokens(extractStructure(converted)))

-----------------------------------------------------------------------------
(* SpecBuild: buildKanaToKanjiMap of either attempt, one corpus line per    *)
(* step, with the insertion attempts logged in program order               *)

MaxCorpus == 2

CorpusPair(kana, kanji) == [kana |-> kana, kanji |-> kanji]

BuildPairs ==
    { CorpusPair(<<"<hira:a>">>, <<"<kanji:a>">>),
      CorpusPair(<<"<hira:a>">>, <<"<kanji:o>">>),
      CorpusPair(<<" ", "<hira:a>", "!">>, <<"<kanji:o>", "!">>),
      CorpusPair(<<"<hira:i>">>, <<"<kanji:i>">>),
      CorpusPair(<<"<hira:a>">> \o ControlC \o <<"<hira:i>">>,
                 <<"<kanji:a>">> \o ControlC \o <<"<kanji:i>">>),
      CorpusPair(<<"<hira:i>">> \o LineBreak \o <<"<hira:a>">>,
                 <<"<kanji:i>">> \o LineBreak \o <<"<kanji:a>">>),
      CorpusPair(<<>>, <<"<kanji:a>">>) }

\* The parallel corpus files: at most n aligned pairs.
Corpora(pairs, n) == SeqsUpTo(pairs, n)

KanaLinesOf(corpus) == [k \in 1..Len(corpus) |-> corpus[k].kana]
KanjiLinesOf(corpus) == [k \in 1..Len(corpus) |-> corpus[k].kanji]

MaxLongCorpus == 6

\* Longer corpus files: 3 and more lines that have no line break in them.
LongCorpora ==
    {[k \in 1..n |-> IF k = 2 THEN CorpusPair(<<"<hira:i>">>, <<"<kanji:i>">>)
                     ELSE CorpusPair(<<"<hira:a>">>, <<"<kanji:a>">>)] :
        n \in 3..MaxLongCorpus}

InitBuild ==
    /\ \E corpus \in Corpora(BuildPairs, MaxCorpus) \cup LongCorpora :
          /\ bKanaLines = KanaLinesOf(corpus)
          /\ bKanjiLines = KanjiLinesOf(corpus)
    /\ bI = 0 /\ bMap = <<>> /\ bLog = <<>>
    /\ bPc \in {"firstAttempt", "secondAttempt"}
    /\ IdleNorm /\ IdleTok /\ IdleDiff /\ IdleLcs /\ IdleMatch /\ IdleLlm
    /\ IdleRun /\ IdleCall

\* One iteration of the second attempt's loop (bI is the 0-based index).
BuildLine ==
    /\ bPc = "secondAttempt"
    /\ bI < Min(Len(bKanaLines), Len(bKanjiLines))
    /\ bMap' = BuildIteration(bMap, bKanaLines, bKanjiLines, bI + 1)
    /\ bLog' = bLog \o BuildAttempts(bKanaLines, bKanjiLines, bI + 1)
    /\ bI' = bI + 1
    /\ UNCHANGED <<llmVars, runVars, callVars, bKanaLines, bKanjiLines, bPc,
                   normVars, tokVars, diffVars, lcsVars, matchVars>>

\* One iteration of the first attempt's loop.
BuildLineFirst ==
    /\ bPc = "firstAttempt"
    /\ bI < Min(Len(bKanaLines), Len(bKanjiLines))
    /\ bMap' = BuildIteration_first(bMap, bKanaLines, bKanjiLines, bI + 1)
    /\ bLog' = bLog \o BuildAttempts_first(bKanaLines, bKanjiLines, bI + 1)
    /\ bI' = bI + 1
    /\ UNCHANGED <<llmVars, runVars, callVars, bKanaLines, bKanjiLines, bPc,
                   normVars, tokVars, diffVars, lcsVars, matchVars>>

\* return map
BuildReturn ==
    /\ bPc \in {"firstAttempt", "secondAttempt"}
    /\ bI = Min(Len(bKanaLines), Len(bKanjiLines))
    /\ bPc' = IF bPc = "firstAttempt" THEN "builtFirst" ELSE "builtSecond"
    /\ UNCHANGED <<llmVars, runVars, callVars, bKanaLines, bKanjiLines, bI, bMap, bLog,
                   normVars, tokVars, diffVars, lcsVars, matchVars>>

NextBuild == BuildLine \/ BuildLineFirst \/ BuildReturn

SpecBuild == InitBuild /\ [][NextBuild]_vars

\* The position in the log of the earliest attempt for key.
EarliestAttempt(log, key) ==
    CHOOSE a \in 1..Len(log) :
        log[a].key = key /\ \A b \in 1..(a - 1) : log[b].key # key

\* C7: the index is first-writer-wins: every key of the index maps to the
\* value of the earliest insertion attempt made for that key, whatever later
\* attempts for the same key followed.
C7_FirstWriterWins ==
    \A k \in 1..Len(bMap) :
        bMap[k].value = bLog[EarliestAttempt(bLog, bMap[k].key)].value

-----------------------------------------------------------------------------
(* SpecMatch: main of the second attempt: the index is built from the       *)
(* corpus, then processXmlFile handles the <string> elements one by one    *)

MaxMatchCorpus == 1
MaxSegments == 3

MatchPairs ==
    { CorpusPair(<<"<hira:a>">>, <<"<kanji:a>">>),
      CorpusPair(<<"<hira:i>">>, <<"<kanji:i>">>),
      CorpusPair(<<"<hira:a>">> \o LineBreak \o <<"<hira:i>">>,
                 <<"<kanji:a>">> \o LineBreak \o <<"<kanji:i>">>) }

MatchSegments == {<<"<hira:a>">>, <<"<hira:i>">>, <<" ">>, Variable00}

\* The texts of at most n segments, neighbours separated by a single or a
\* double line break.
RECURSIVE SegmentedTexts(_)
SegmentedTexts(n) ==
    IF n = 0 THEN {}
    ELSE MatchSegments \cup
         {t \o d \o seg : t \in SegmentedTexts(n - 1),
                          d \in {LineBreak, DoubleLineBreak},
                          seg \in MatchSegments}

\* Prefixes of 19 and of 20 characters before a single line break.
Prefix19 ==
    Variable00 \o Variable00 \o Variable00 \o Variable00
    \o <<"<hira:i>", "<hira:i>", "<hira:i>">>
Prefix20 == Prefix19 \o <<"<hira:i>">>
BoundaryTexts ==
    {Prefix19 \o LineBreak \o <<"<hira:a>">>, Prefix20 \o LineBreak \o <<"<hira:a>">>}

\* Files of two <string> elements.
SampleTexts ==
    {Variable00, <<"<hira:a>">>, <<"<hira:i>">> \o DoubleLineBreak \o <<"<hira:a>">>}

\* A line of the XML file. element: the line matches the <string> pattern
\* (stringMatch); text is then the text between the tags, which the output
\* line has between the same prefix and suffix. For any other line text is
\* the whole line.
StringElement(text) == [element |-> TRUE, text |-> text]
OtherLine(text) == [element |-> FALSE, text |-> text]

\* The XML files read by processXmlFile: one <string> element, two of them,
\* or one next to a line that is not an element.
XmlFiles ==
    {<<StringElement(t)>> : t \in SegmentedTexts(MaxSegments) \cup BoundaryTexts}
    \cup {<<StringElement(t1), StringElement(t2)>> :
             t1 \in SampleTexts, t2 \in SampleTexts}
    \cup {<<OtherLine(t1), StringElement(t2)>> :
             t1 \in SampleTexts, t2 \in SampleTexts}
    \cup {<<StringElement(t1), OtherLine(t2)>> :
             t1 \in SampleTexts, t2 \in SampleTexts}

InitMatch ==
    /\ \E corpus \in Corpora(MatchPairs, MaxMatchCorpus) :
          /\ mKanaLines = KanaLinesOf(corpus)
          /\ mKanjiLines = KanjiLinesOf(corpus)
    /\ mDoc = <<>> /\ mLines = <<>> /\ mOutput = <<>>
    /\ mLookupMap = <<>> /\ mStats = ZeroStats
    /\ mText = <<>> /\ mKanjiText = Null /\ mFormattedKanji = <<>>
    /\ mPc = "start"
    /\ IdleNorm /\ IdleTok /\ IdleDiff /\ IdleLcs /\ IdleBuild /\ IdleLlm
    /\ IdleRun /\ IdleCall

\* const lookupMap = buildKanaToKanjiMap(kanaLines, kanjiLines)
BuildIndex ==
    /\ mPc = "start"
    /\ mLookupMap' = buildKanaToKanjiMap(mKanaLines, mKanjiLines)
    /\ mPc' = "indexed"
    /\ UNCHANGED <<llmVars, runVars, callVars, mKanaLines, mKanjiLines, mLines, mStats, mText, mKanjiText,
                   mFormattedKanji, mDoc, mOutput,
                   normVars, tokVars, diffVars, lcsVars, buildVars>>

\* processXmlFile is entered: the file is read and split into lines.
ReadXmlFile ==
    /\ mPc = "indexed"
    /\ mDoc' \in XmlFiles
    /\ mLines' = mDoc'
    /\ mPc' = "built"
    /\ UNCHANGED <<llmVars, runVars, callVars, mKanaLines, mKanjiLines, mLookupMap, mStats, mText,
                   mKanjiText, mFormattedKanji, mOutput,
                   normVars, tokVars, diffVars, lcsVars, buildVars>>

\* The positions of processXmlFile between two lines of the file.
LoopPcs == {"built", "passed", "skipped", "converted", "notFound"}

InLoop == mPc \in LoopPcs /\ mLines # <<>>

Bump(stats, field) == [stats EXCEPT ![field] = @ + 1]

\* A plausible slip: a line that is not converted is left out of the output.
KeepLine_dropped(output, line) == output

\* modifiedContent += line + '\n'
KeepLine(output, line) == Append(output, line)

\* The line is not a <string> element: it is written as it is.
PassOtherLine ==
    /\ InLoop /\ ~Head(mLines).element
    /\ mOutput' = KeepLine(mOutput, Head(mLines))
    /\ mLines' = Tail(mLines)
    /\ mPc' = "passed"
    /\ UNCHANGED <<llmVars, runVars, callVars, mKanaLines, mKanjiLines, mLookupMap, mStats, mText,
                   mKanjiText, mFormattedKanji, mDoc,
                   normVars, tokVars, diffVars, lcsVars, buildVars>>

\* if (!containsKana(text)): the line is written as it is.
SkipNoKana ==
    /\ InLoop /\ Head(mLines).element /\ ~containsKana(Head(mLines).text)
    /\ mText' = Head(mLines).text /\ mLines' = Tail(mLines)
    /\ mStats' = Bump(Bump(mStats, "totalStrings"), "skippedNoKana")
    /\ mKanjiText' = Null
    /\ mFormattedKanji' = Head(mLines).text
    /\ mOutput' = KeepLine(mOutput, Head(mLines))
    /\ mPc' = "skipped"
    /\ UNCHANGED <<llmVars, runVars, callVars, mKanaLines, mKanjiLines, mLookupMap, mDoc,
                   normVars, tokVars, diffVars, lcsVars, buildVars>>

StatsAfter_uncounted(stats, found, outcome) ==
    [Bump(Bump(stats, "totalStrings"), "processedWithKana")
        EXCEPT !.multiSegmentMatches = @ + found.multiSegmentMatches,
               !.partialMatches = @ + found.partialMatches]

\* The counters after findKanjiVersion returned found for a string with kana.
StatsAfter(stats, found, outcome) ==
    [Bump(Bump(Bump(stats, "totalStrings"), "processedWithKana"), outcome)
        EXCEPT !.multiSegmentMatches = @ + found.multiSegmentMatches,
               !.partialMatches = @ + found.partialMatches]

\* if (kanjiText): prefix + formattedKanji + suffix is written.
ConvertString ==
    /\ InLoop /\ Head(mLines).element /\ containsKana(Head(mLines).text)
    /\ \E found \in {findKanjiVersion(Head(mLines).text, mLookupMap)} :
          /\ Truthy(found.result)
          /\ mKanjiText' = found.result
          /\ mStats' = StatsAfter(mStats, found, "foundMatches")
    /\ mFormattedKanji' = reconstructWithFormatting(Head(mLines).text, mKanjiText')
    /\ mOutput' = Append(mOutput, StringElement(mFormattedKanji'))
    /\ mText' = Head(mLines).text /\ mLines' = Tail(mLines)
    /\ mPc' = "converted"
    /\ UNCHANGED <<llmVars, runVars, callVars, mKanaLines, mKanjiLines, mLookupMap, mDoc,
                   normVars, tokVars, diffVars, lcsVars, buildVars>>

\* else: the line is written as it is and logged as unmatched.
NoMatchString ==
    /\ InLoop /\ Head(mLines).element /\ containsKana(Head(mLines).text)
    /\ \E found \in {findKanjiVersion(Head(mLines).text, mLookupMap)} :
          /\ ~Truthy(found.result)
          /\ mKanjiText' = found.result
          /\ mStats' = StatsAfter(mStats, found, "notFoundMatches")
    /\ mFormattedKanji' = Head(mLines).text
    /\ mOutput' = KeepLine(mOutput, Head(mLines))
    /\ mText' = Head(mLines).text /\ mLines' = Tail(mLines)
    /\ mPc' = "notFound"
    /\ UNCHANGED <<llmVars, runVars, callVars, mKanaLines, mKanjiLines, mLookupMap, mDoc,
                   normVars, tokVars, diffVars, lcsVars, buildVars>>

\* fs.writeFileSync(outputPath, modifiedContent)
WriteOutput ==
    /\ mPc \in LoopPcs /\ mLines = <<>>
    /\ mPc' = "written"
    /\ UNCHANGED <<llmVars, runVars, callVars, mKanaLines, mKanjiLines, mLookupMap, mLines, mStats, mText,
                   mKanjiText, mFormattedKanji, mDoc, mOutput,
                   normVars, tokVars, diffVars, lcsVars, buildVars>>

NextMatch ==
    \/ BuildIndex \/ ReadXmlFile \/ PassOtherLine \/ SkipNoKana
    \/ ConvertString \/ NoMatchString \/ WriteOutput

SpecMatch == InitMatch /\ [][NextMatch]_vars

\* C4: full-replacement mode preserves structure: the variable and
\* line-break tokens of the reconstructed output are, in order, those of the
\* original line.
C4_StructurePreserved ==
    mPc = "converted" =>
        StructuralTokens(extractStructure(mFormattedKanji))
            = StructuralTokens(extractStructure(mText))

\* findKanjiVersion was called for the string in mText.
Looked == mPc \in {"converted", "notFound"}

CanonicalKey(text) == normalizeForComparison_second(text)

\* C8: exact match has priority: when the whole canonical form of a line is
\* a key of the index, findKanjiVersion returns the index value of that key,
\* whatever the line's single or double line breaks would let a later
\* strategy return.
C8_ExactPriority ==
    (Looked /\ MapHas(mLookupMap, CanonicalKey(mText))) =>
        mKanjiText = MapGet(mLookupMap, CanonicalKey(mText))

\* An exact match for a line with a double line break whose segments all
\* resolve too, to a different text.
C8_Witness ==
    /\ mPc = "converted"
    /\ MapHas(mLookupMap, CanonicalKey(mText))
    /\ Includes(mText, DoubleLineBreak)
    /\ \A k \in 1..Len(Split(mText, DoubleLineBreak)) :
          MapHas(mLookupMap, CanonicalKey(Split(mText, DoubleLineBreak)[k]))
    /\ mKanjiText # Join([k \in 1..Len(Split(mText, DoubleLineBreak)) |->
                            MapGet(mLookupMap,
                                CanonicalKey(Split(mText, DoubleLineBreak)[k]))],
                         DoubleLineBreak)

\* This step handles a string with kana (findKanjiVersion is called) that
\* holds a double line break and has no exact match.
MultiSegmentStep ==
    /\ mStats'.processedWithKana = mStats.processedWithKana + 1
    /\ Includes(mText', DoubleLineBreak)
    /\ ~MapHas(mLookupMap, CanonicalKey(mText'))

MultiSegmentSucceeds ==
    mStats'.multiSegmentMatches = mStats.multiSegmentMatches + 1
MultiSegmentFails ==
    mStats'.multiSegmentMatches = mStats.multiSegmentMatches

\* The replacement of segment when the blank segments are kept and the
\* others are looked up by the canonical form of the trimmed segment.
ResolvedTrimmed(segment, map) ==
    IF Blank(segment) THEN segment ELSE MapGet(map, CanonicalKey(Trim(segment)))

\* Every non-blank segment of text has, trimmed, a key in the index.
AllResolveTrimmed(text, delimiter, map) ==
    \A k \in 1..Len(Split(text, delimiter)) :
        \/ Blank(Split(text, delimiter)[k])
        \/ MapHas(map, CanonicalKey(Trim(Split(text, delimiter)[k])))

JoinedTrimmed(text, delimiter, map) ==
    Join([k \in 1..Len(Split(text, delimiter)) |->
             ResolvedTrimmed(Split(text, delimiter)[k], map)], delimiter)

\* The same with "non-empty" taken literally: only the empty segments are
\* kept, and a segment is looked up by its own canonical form.
ResolvedNonEmpty(segment, map) ==
    IF segment = <<>> THEN segment ELSE MapGet(map, CanonicalKey(segment))

AllResolveNonEmpty(text, delimiter, map) ==
    \A k \in 1..Len(Split(text, delimiter)) :
        \/ Split(text, delimiter)[k] = <<>>
        \/ MapHas(map, CanonicalKey(Split(text, delimiter)[k]))

JoinedNonEmpty(text, delimiter, map) ==
    Join([k \in 1..Len(Split(text, delimiter)) |->
             ResolvedNonEmpty(Split(text, delimiter)[k], map)], delimiter)

ShortPrefixCase ==
    /\ Looked
    /\ ~MapHas(mLookupMap, CanonicalKey(mText))
    /\ ~AllResolveTrimmed(mText, LineBreak, mLookupMap)
    /\ Len(Split(mText, LineBreak)) = 2
    /\ Len(Split(mText, LineBreak)[1]) < ShortPrefixLimit
    /\ MapHas(mLookupMap, CanonicalKey(Split(mText, LineBreak)[2]))

-----------------------------------------------------------------------------
(* SpecMatch: the matcher's boundary *)

\* The substrings of s that have n characters.
SubstringsOf(s, n) == {SubSeq(s, p, p + n - 1) : p \in 1..(Len(s) - n + 1)}

\* a and b have a common substring of n characters.
SharesSubstring(a, b, n) == SubstringsOf(a, n) \cap SubstringsOf(b, n) # {}

\* The canonical form of the line in mText has no common substring of 3 or
\* more characters with the canonical phonetic form of any corpus entry.
NoOverlap ==
    \A i \in 1..Len(mKanaLines) :
        ~SharesSubstring(CanonicalKey(mText), CanonicalKey(mKanaLines[i]),
                         MinCorpusLength)

\* C11: NoMatch boundary: for a line without such an overlap the matcher
\* returns no match (null), never a string.
C11_NoMatchBoundary == (Looked /\ NoOverlap) => mKanjiText = Null

-----------------------------------------------------------------------------
(* SpecMatch: the lines written *)

\* The line is not resolved: it is not a <string> element, it holds no kana,
\* or the matcher has no match for its text.
Unresolved(line) ==
    \/ ~line.element
    \/ ~containsKana(line.text)
    \/ ~Truthy(findKanjiVersion(line.text, mLookupMap).result)

\* C12: unresolved lines pass through unchanged: every line handled so far
\* has one output line, at its own index, and the output line of a line that
\* is not a string element, holds no kana or gets no match is the input
\* line; when the output is written every line of the file has been handled.
C12_PassThrough ==
    mPc \in LoopPcs \cup {"written"} =>
        /\ Len(mOutput) + Len(mLines) = Len(mDoc)
        /\ mPc = "written" => Len(mOutput) = Len(mDoc)
        /\ \A k \in 1..Len(mOutput) :
              Unresolved(mDoc[k]) => mOutput[k] = mDoc[k]

\* A file was written in which a line that is not a string element, though
\* its text is a key of the index, is followed by an element that was
\* converted.
C12_Witness ==
    /\ mPc = "written"
    /\ Len(mDoc) = 2
    /\ ~mDoc[1].element
    /\ MapHas(mLookupMap, CanonicalKey(mDoc[1].text))
    /\ mOutput[1] = mDoc[1]
    /\ mDoc[2].element
    /\ mOutput[2] # mDoc[2]

-----------------------------------------------------------------------------
(* SpecApply: applyMappingsToXml on any line and any list of mappings *)

MaxApplyLen == 2
MaxMappings == 2

ApplyAlphabet == {"<hira:a>", "<hira:i>", "$"}

\* The phonetic and logographic spans of the mappings tried.
ApplyKana == {<<"<hira:a>">>, <<"<hira:i>">>, <<"<hira:a>", "<hira:i>">>}
ApplyKanji ==
    {<<"<kanji:a>">>, <<"<hira:i>">>, <<"$", "&">>, <<"$", "$">>,
     <<"<kanji:a>", "$">>}

ApplyMappings == {DiffSegment(kana, kanji) : kana \in ApplyKana, kanji \in ApplyKanji}

InitApply ==
    /\ xmlText \in SeqsUpTo(ApplyAlphabet, MaxApplyLen)
    /\ xmlMatches \in SeqsUpTo(ApplyMappings, MaxMappings)
    /\ kanaCorpus = <<>> /\ kanjiCorpus = <<>> /\ converted = <<>>
    /\ lPc = "step5"
    /\ IdleNorm /\ IdleTok /\ IdleDiff /\ IdleBuild /\ IdleMatch /\ IdleLlm
    /\ IdleRun /\ IdleCall

NextApply == Step5Apply

SpecApply == InitApply /\ [][NextApply]_vars

RECURSIVE AppliedVerbatim(_, _)
\* Each mapping once, in list order: the first occurrence of its phonetic
\* span replaced by exactly its logographic span; a mapping whose span does
\* not occur changes nothing.
AppliedVerbatim(text, maps) ==
    IF maps = <<>> THEN text
    ELSE AppliedVerbatim(
             IF IndexOf(text, Head(maps).kana) = 0 THEN text
             ELSE SubSeq(text, 1, IndexOf(text, Head(maps).kana) - 1)
                  \o Head(maps).kanji
                  \o SubSeq(text, IndexOf(text, Head(maps).kana)
                                  + Len(Head(maps).kana), Len(text)),
             Tail(maps))

\* C13: applyMappingsToXml applies each mapping at most once, in list
\* order, replacing only the first occurrence of the phonetic span by the
\* logographic span inserted verbatim, and skipping a mapping whose span
\* does not occur.
C13_AppliedVerbatim ==
    lPc = "applied" => converted = AppliedVerbatim(xmlText, xmlMatches)

-----------------------------------------------------------------------------
(* SpecBuild: which pairs are inserted *)

\* Either side of the pair is empty after trimming, or its canonical
\* phonetic form has fewer than 3 characters.
ShortPair(kana, kanji) ==
    \/ Trim(kana) = <<>>
    \/ Trim(kanji) = <<>>
    \/ Len(normalizeForComparison_second(kana)) < MinCorpusLength

\* This step is the iteration of the second attempt's build for a short pair.
ShortPairStep ==
    /\ bPc = "secondAttempt"
    /\ bI' = bI + 1
    /\ ShortPair(bKanaLines[bI'], bKanjiLines[bI'])

\* C14: index build skips short pairs: the iteration for a pair that is
\* empty on either side after trimming, or whose canonical phonetic form has
\* fewer than 3 characters, does not make that canonical form a key of the
\* index.
C14_ShortPairsSkipped ==
    [][ShortPairStep =>
          (MapHas(bMap', normalizeForComparison_second(bKanaLines[bI']))
              => MapHas(bMap, normalizeForComparison_second(bKanaLines[bI'])))]_vars

-----------------------------------------------------------------------------
(* SpecBuild: the multi-line combination entries *)

\* Add combinations of 2-5 consecutive lines
MaxCombinationLines == 5

\* No line of the corpus holds the double line break itself, so that an
\* index value holding it was made by joining lines.
PlainCorpus ==
    \A i \in 1..Len(bKanaLines) :
        /\ ~Includes(bKanaLines[i], DoubleLineBreak)
        /\ ~Includes(bKanjiLines[i], DoubleLineBreak)

\* entry joins the n consecutive line pairs from line i on, all non-empty.
IsCombination(entry, i, n) ==
    /\ i + n - 1 <= Min(Len(bKanaLines), Len(bKanjiLines))
    /\ \A j \in i..(i + n - 1) : bKanaLines[j] # <<>> /\ bKanjiLines[j] # <<>>
    /\ entry.value = Join(SubSeq(bKanjiLines, i, i + n - 1), DoubleLineBreak)
    /\ entry.key = normalizeForComparison_second(
                       Join(SubSeq(bKanaLines, i, i + n - 1), DoubleLineBreak))

\* C15: every multi-line combination entry of the index joins, with the
\* double line break on both sides, between 2 and 5 consecutive non-empty
\* corpus line pairs, as many phonetic lines as logographic ones.
C15_CombinationLines ==
    PlainCorpus =>
        \A k \in 1..Len(bMap) :
            Includes(bMap[k].value, DoubleLineBreak) =>
                \E n \in 2..MaxCombinationLines, i \in 1..Len(bKanaLines) :
                    IsCombination(bMap[k], i, n)

-----------------------------------------------------------------------------
(* SpecFilter: needsKanjification on bounded strings *)

MaxFilterLen == 5

\* [a-zA-Z0-9]
RomanChars ==
    {"a", "b", "c", "d", "e", "f", "g", "h", "i", "j", "k", "l", "m", "n",
     "o", "p", "q", "r", "s", "t", "u", "v", "w", "x", "y", "z",
     "A", "B", "C", "D", "E", "F", "G", "H", "I", "J", "K", "L", "M", "N",
     "O", "P", "Q", "R", "S", "T", "U", "V", "W", "X", "Y", "Z",
     "0", "1", "2", "3", "4", "5", "6", "7", "8", "9"}

\* (s.match(/[class]/g) || []).length
CountClass(s, class) == Len(SelectSeq(s, LAMBDA ch : ch \in class))

\* needsKanjification, from the canonical form on. The quotients are
\* compared as integers: k / total > 0.8 is k * 10 > total * 8.
NeedsOnNormalized(normalized) ==
    IF Len(normalized) < 3 THEN FALSE
    ELSE IF CountClass(normalized, Kanji) > 0 THEN FALSE
    ELSE IF CountClass(normalized, Katakana) * 10 > Len(normalized) * 8
         THEN FALSE
    ELSE IF CountClass(normalized, RomanChars) * 2 > Len(normalized)
         THEN FALSE
    ELSE IF CountClass(normalized, Hiragana) < 3 THEN FALSE
    ELSE TRUE

\* utils/cleanSpecial.ts, needsKanjification
needsKanjification(text) == NeedsOnNormalized(normalizeForComparison(text))

FilterAlphabet == {"<hira:a>", "<kata:ka>", "<kanji:a>", "a", "!"}

InitFilter ==
    /\ nText \in SeqsUpTo(FilterAlphabet, MaxFilterLen)
    /\ nOnce = <<>> /\ nTwice = <<>> /\ nPc = "step6"
    /\ IdleTok /\ IdleDiff /\ IdleLcs /\ IdleBuild /\ IdleMatch /\ IdleLlm
    /\ IdleRun /\ IdleCall

\* Step 6 on an unmatched string: needsKanjification(xmlStr.text) decides
\* whether it is pushed to llmInputStrings.
Step6Filter ==
    /\ nPc = "step6"
    /\ nOnce' = normalizeForComparison(nText)
    /\ nPc' = IF needsKanjification(nText) THEN "needsLLM" ELSE "filtered"
    /\ UNCHANGED <<llmVars, runVars, callVars, nText, nTwice, tokVars, diffVars, lcsVars, buildVars,
                   matchVars>>

NextFilter == Step6Filter

SpecFilter == InitFilter /\ [][NextFilter]_vars

\* The filter of the README on a canonical form: more than 80% katakana,
\* more than 50% roman letters or digits, more than 50% kanji, or fewer than
\* 3 hiragana.
ReadmeFiltersOut(normalized) ==
    \/ CountClass(normalized, Katakana) * 10 > Len(normalized) * 8
    \/ CountClass(normalized, RomanChars) * 2 > Len(normalized)
    \/ CountClass(normalized, Kanji) * 2 > Len(normalized)
    \/ CountClass(normalized, Hiragana) < 3

\* C16: needsKanjification(text) is true if and only if, on the canonical
\* form, at most 80% of the characters are katakana, at most 50% are roman
\* letters or digits, at most 50% are kanji, and at least 3 are hiragana.
C16_SmartFiltering ==
    nPc \in {"needsLLM", "filtered"} =>
        ((nPc = "needsLLM") <=> ~ReadmeFiltersOut(nOnce))

-----------------------------------------------------------------------------
(* SpecBatch: the batch loop of the LLM stage *)

MaxEntries == 201

\* The two kanjify programs: the Ollama one, and the Gemini/Ollama one run
\* with or without --gemini.
Variants == {"ollama", "geminiOrOllama", "geminiOrOllama--gemini"}

USE_GEMINI(variant) == variant = "geminiOrOllama--gemini"

\* const BATCH_SIZE = 100, and const BATCH_SIZE = USE_GEMINI ? 500 : 200
BATCH_SIZE(variant) ==
    IF variant = "ollama" THEN 100
    ELSE IF USE_GEMINI(variant) THEN 500 ELSE 200

\* retryAttempt < MAX_RETRIES; the Ollama program has no retry.
MAX_RETRIES(variant) == IF variant = "ollama" THEN 0 ELSE 3

\* Numbers of entries at, just below and just above a multiple of a batch
\* size.
EntryCounts ==
    {n \in 0..MaxEntries :
        \E v \in Variants : n % BATCH_SIZE(v) \in {0, 1, BATCH_SIZE(v) - 1}}

\* parseNoMatchFile: the entries in file order, each named by its line
\* number.
NoMatchEntries(n) == [k \in 1..n |-> k]

BatchSlice_overlap(entries, i, size) ==
    SubSeq(entries, i + 1, Min(i + size + 1, Len(entries)))

\* entries.slice(i, Math.min(i + BATCH_SIZE, entries.length)), i from 0
BatchSlice(entries, i, size) ==
    SubSeq(entries, i + 1, Min(i + size, Len(entries)))

InitBatch ==
    /\ llmVariant \in Variants
    /\ \E n \in EntryCounts : llmEntries = NoMatchEntries(n)
    /\ llmI = 0 /\ llmBatches = <<>> /\ llmPending = {} /\ llmRetry = 0
    /\ llmConversions = {} /\ llmPc = "loop"
    /\ IdleNorm /\ IdleTok /\ IdleDiff /\ IdleLcs /\ IdleBuild /\ IdleMatch
    /\ IdleRun /\ IdleCall

\* The loop body up to the await: the batch is sliced and
\* processBatchWithLLM(batch, systemPrompt) is called.
StartBatch ==
    /\ llmPc = "loop" /\ llmI < Len(llmEntries)
    /\ llmBatches' = Append(llmBatches,
                            BatchSlice(llmEntries, llmI, BATCH_SIZE(llmVariant)))
    /\ llmPending' = llmPending \cup {(llmI \div BATCH_SIZE(llmVariant)) + 1}
    /\ llmRetry' = 0
    /\ llmPc' = "awaiting"
    /\ UNCHANGED <<llmVariant, llmEntries, llmI, llmConversions,
                   normVars, tokVars, diffVars, lcsVars, buildVars, matchVars,
                   runVars, callVars>>

\* The line numbers of the batch in flight that have no conversion yet: the
\* batch itself on the first request, the missing ones on a retry.
Requested ==
    {llmBatches[Len(llmBatches)][k] : k \in 1..Len(llmBatches[Len(llmBatches)])}
        \ llmConversions

\* processBatchWithLLM has parsed the line numbers in results from a
\* response (none when the request threw). With line numbers missing it calls
\* itself again while retryAttempt < MAX_RETRIES; otherwise it returns, the
\* results are merged into allConversions and the loop goes on with
\* i += BATCH_SIZE.
Respond(results) ==
    /\ llmPc = "awaiting"
    /\ llmConversions' = llmConversions \cup results
    /\ IF results # Requested /\ llmRetry < MAX_RETRIES(llmVariant)
       THEN /\ llmRetry' = llmRetry + 1
            /\ UNCHANGED <<llmI, llmPending, llmPc>>
       ELSE /\ llmI' = llmI + BATCH_SIZE(llmVariant)
            /\ llmPending' = llmPending \ {Len(llmBatches)}
            /\ llmPc' = "loop"
            /\ UNCHANGED llmRetry
    /\ UNCHANGED <<llmVariant, llmEntries, llmBatches,
                   normVars, tokVars, diffVars, lcsVars, buildVars, matchVars,
                   runVars, callVars>>

\* The response holds every string asked for.
ResponseComplete == llmPc = "awaiting" /\ Respond(Requested)

\* The response misses the string with the highest line number.
ResponsePartial ==
    /\ llmPc = "awaiting" /\ Cardinality(Requested) >= 2
    /\ \E last \in Requested :
           /\ \A other \in Requested : other <= last
           /\ Respond(Requested \ {last})

\* The request threw, or no string could be parsed from the response.
ResponseError == llmPc = "awaiting" /\ Respond({})

\* The loop is left: updateXMLFile(allConversions)
FinishBatches ==
    /\ llmPc = "loop" /\ llmI >= Len(llmEntries)
    /\ llmPc' = "done"
    /\ UNCHANGED <<llmVariant, llmEntries, llmI, llmBatches, llmPending,
                   llmRetry, llmConversions,
                   normVars, tokVars, diffVars, lcsVars, buildVars, matchVars,
                   runVars, callVars>>

NextBatch ==
    \/ StartBatch \/ ResponseComplete \/ ResponsePartial \/ ResponseError
    \/ FinishBatches

SpecBatch == InitBatch /\ [][NextBatch]_vars

\* Process strings in batches of 100
ReadmeBatchSize == 100

\* The batches sliced so far are consecutive slices of the entries in file
\* order, each of 1 to size entries, they hold every entry once the loop is
\* left, and no call but the one of the newest batch is still pending.
BatchesPartition(size) ==
    /\ Flatten(llmBatches) = SubSeq(llmEntries, 1, Len(Flatten(llmBatches)))
    /\ \A k \in 1..Len(llmBatches) : Len(llmBatches[k]) \in 1..size
    /\ llmPc = "done" => Flatten(llmBatches) = llmEntries
    /\ \A k \in llmPending : k = Len(llmBatches)

-----------------------------------------------------------------------------
(* SpecFuzzy: strategy 4 of findKanjiVersion on long strings *)

MaxFuzzyIndex == 2

\* n times the character ch
Repeat(ch, n) == [k \in 1..n |-> ch]

IndexEntry(key, value) == [key |-> key, value |-> value]

\* Index entries with canonical keys 1 below, at and 1 above the key length
\* that strategy 4 asks for.
FuzzyEntries ==
    {IndexEntry(Repeat("<hira:ka>", FuzzyMinKeyLength - 1), <<"<kanji:o>">>),
     IndexEntry(Repeat("<hira:a>", FuzzyMinKeyLength), <<"<kanji:a>">>),
     IndexEntry(Repeat("<hira:a>", FuzzyMinKeyLength + 1), <<"<kanji:1>">>),
     IndexEntry(Repeat("<hira:i>", FuzzyMinKeyLength + 1), <<"<kanji:i>">>)}

\* The lookup maps: up to MaxFuzzyIndex entries with different keys.
FuzzyIndexes ==
    {map \in SeqsUpTo(FuzzyEntries, MaxFuzzyIndex) :
        /\ map # <<>>
        /\ \A j, k \in 1..Len(map) : j # k => map[j].key # map[k].key}

FuzzyPieces ==
    {Repeat("<hira:a>", FuzzyMinKeyLength + 5),
     Repeat("<hira:a>", FuzzyMinKeyLength + 10),
     Repeat("<hira:i>", FuzzyMinKeyLength + 1),
     Repeat("<hira:ka>", FuzzyMinKeyLength - 1)
         \o Repeat("<hira:ga>", FuzzyMinKeyLength - 8),
     Repeat("<hira:ga>", FuzzyMinKeyLength + 10)}

\* One piece, or two pieces with a double line break between them.
FuzzyTexts ==
    FuzzyPieces
    \cup {p \o DoubleLineBreak \o q : p \in FuzzyPieces, q \in FuzzyPieces}

InitFuzzy ==
    /\ mLookupMap \in FuzzyIndexes
    /\ mText \in FuzzyTexts
    /\ mKanaLines = <<>> /\ mKanjiLines = <<>> /\ mLines = <<>>
    /\ mStats = ZeroStats /\ mKanjiText = Null /\ mFormattedKanji = <<>>
    /\ mDoc = <<>> /\ mOutput = <<>>
    /\ mPc = "strategy4"
    /\ IdleNorm /\ IdleTok /\ IdleDiff /\ IdleLcs /\ IdleBuild /\ IdleLlm
    /\ IdleRun /\ IdleCall

\* Strategy 4 of findKanjiVersion, reached after strategies 1 to 3b found
\* nothing.
TryStrategy4 ==
    /\ mPc = "strategy4"
    /\ mKanjiText' = Strategy4(mText, mLookupMap)
    /\ mStats' = IF Strategy4(mText, mLookupMap) # Null
                 THEN [mStats EXCEPT !.partialMatches = @ + 1]
                 ELSE mStats
    /\ mPc' = "strategy4Done"
    /\ UNCHANGED <<mKanaLines, mKanjiLines, mLookupMap, mLines, mText,
                   mFormattedKanji, mDoc, mOutput,
                   normVars, tokVars, diffVars, lcsVars, buildVars, llmVars, runVars, callVars>>

NextFuzzy == TryStrategy4

SpecFuzzy == InitFuzzy /\ [][NextFuzzy]_vars

\* Strategy 4 has accepted the line.
FuzzyAccepted == mPc = "strategy4Done" /\ mKanjiText # Null

\* The index entries whose key is long enough for strategy 4 and occurs in
\* the canonical form of the line, in insertion order.
Occurring(text, map) ==
    SelectSeq(map, LAMBDA e :
        /\ Len(e.key) >= FuzzyMinKeyLength
        /\ Includes(normalizeForComparison_second(text), e.key))

\* C18: when the fuzzy strategy accepts a line, the replacement it returns
\* is that of the first index entry, in insertion order, whose canonical key
\* is long enough and occurs in the canonical form of the line.
C18_FirstEntryReturned ==
    FuzzyAccepted =>
        /\ Occurring(mText, mLookupMap) # <<>>
        /\ mKanjiText = Head(Occurring(mText, mLookupMap)).value

\* The positions of the canonical form of the line that lie in an occurrence
\* found by strategy 4.
CoveredPositions(text, map) ==
    {p \in 1..Len(normalizeForComparison_second(text)) :
        \E k \in 1..Len(Occurring(text, map)) :
            /\ p >= IndexOf(normalizeForComparison_second(text),
                            Occurring(text, map)[k].key)
            /\ p < IndexOf(normalizeForComparison_second(text),
                           Occurring(text, map)[k].key)
                   + Len(Occurring(text, map)[k].key)}

\* C19: the fuzzy strategy accepts a line only when the occurrences found
\* cover at least 60% of the canonical form of the line, each position
\* counted at most once; below 60% it returns no match.
C19_CoverageOnce ==
    FuzzyAccepted =>
        Cardinality(CoveredPositions(mText, mLookupMap)) * 10
            >= Len(normalizeForComparison_second(mText)) * 6

\* The index without the entries whose key is shorter than n characters.
WithoutShorter(map, n) == SelectSeq(map, LAMBDA e : Len(e.key) >= n)

\* C20 as stated: strategy 4 only considers index entries whose canonical
\* key length exceeds 20; an entry whose key has 20 or fewer characters
\* contributes nothing to the coverage sum or to the replacement returned.
C20_KeysOver20 ==
    mPc = "strategy4Done" =>
        mKanjiText = Strategy4(mText, WithoutShorter(mLookupMap,
                                                     FuzzyMinKeyLength + 1))

\* C20: strategy 4 only considers index entries whose canonical key has at
\* least 20 characters; an entry whose key has fewer than 20 characters
\* contributes nothing to the coverage sum or to the replacement returned.
C20_KeysFrom20 ==
    mPc = "strategy4Done" =>
        mKanjiText = Strategy4(mText, WithoutShorter(mLookupMap,
                                                     FuzzyMinKeyLength))

\* An index key of fewer than 20 characters occurs in the canonical form of
\* the line.
ShortKeyOccurs ==
    \E k \in 1..Len(mLookupMap) :
        /\ Len(mLookupMap[k].key) < FuzzyMinKeyLength
        /\ Includes(normalizeForComparison_second(mText), mLookupMap[k].key)

\* Strategy 4 has run on a line of more than 50 characters with a double
\* line break, where a key of fewer than 20 characters and a longer one
\* both occur.
C20_Witness ==
    /\ mPc = "strategy4Done"
    /\ Len(normalizeForComparison_second(mText)) > FuzzyMinTextLength
    /\ Includes(mText, DoubleLineBreak)
    /\ ShortKeyOccurs
    /\ \E k \in 1..Len(mLookupMap) :
           /\ Len(mLookupMap[k].key) > FuzzyMinKeyLength
           /\ Includes(normalizeForComparison_second(mText), mLookupMap[k].key)

-----------------------------------------------------------------------------
(* SpecDiff: the tie-break of the backtracking loop *)

\* The loop is at (i, j) with i > 0, j > 0, different characters there and
\* equal LCS values in the two neighbour cells.
TieAt(kana, kanji, i, j) ==
    /\ i > 0 /\ j > 0
    /\ kana[i] # kanji[j]
    /\ LcsTable(kana, kanji)[i, j - 1] = LcsTable(kana, kanji)[i - 1, j]

\* C21: at a backtrack position (i, j) with i > 0, j > 0, different
\* characters and lcs[i][j-1] = lcs[i-1][j], computeDiff consumes the kanji
\* character (j decreases, i does not), and the segments returned are a
\* function of the two inputs.
C21_TieBreak ==
    [][/\ (dPc = "backtrack" /\ TieAt(cleanKana, cleanKanji, lcsI, lcsJ))
           => /\ lcsJ' = lcsJ - 1 /\ lcsI' = lcsI
              /\ currentKanji' = Append(currentKanji, cleanKanji[lcsJ])
              /\ currentKana' = currentKana
       /\ dPc' = "done" => merged' = computeDiff(cleanKana, cleanKanji)]_vars

\* The first iteration met a tie at (m, n) and has taken the kanji
\* character.
C21_Witness ==
    /\ dPc = "backtrack"
    /\ lcsI = Len(cleanKana) /\ lcsJ = Len(cleanKanji) - 1
    /\ TieAt(cleanKana, cleanKanji, lcsI, lcsJ + 1)
    /\ currentKanji = <<cleanKanji[lcsJ + 1]>> /\ currentKana = <<>>

-----------------------------------------------------------------------------
(* SpecFormat: applyFormatting of the first attempt and                    *)
(* reconstructWithFormatting of the second on a matched line               *)

MaxFormatPieces == 3
MaxReplacementLen == 3

\* Math.round((segmentLength / originalTextLength) * newTextLength): half-up
\* rounding of a non-negative quotient. The double-precision product rounds
\* to the same integer as the exact quotient for every length below 22.
RoundedShare(segmentLength, originalTextLength, newTextLength) ==
    (2 * segmentLength * newTextLength + originalTextLength)
        \div (2 * originalTextLength)

\* formatting.slice(formatting.indexOf(item) + 1).every(f => f.type !== 'text')
IsLastSegment(formatting, k) ==
    \A q \in (k + 1)..Len(formatting) : formatting[q].type # "text"

\* targetLength after the two corrections (end of the new text, last text
\* segment).
TargetLength(formatting, k, segmentLength, originalTextLength, newTextLength, newTextPos) ==
    IF IsLastSegment(formatting, k) THEN newTextLength - newTextPos
    ELSE IF newTextPos
              + RoundedShare(segmentLength, originalTextLength, newTextLength)
              > newTextLength
         THEN newTextLength - newTextPos
    ELSE RoundedShare(segmentLength, originalTextLength, newTextLength)

TakePortion_noAdvance(acc, newNormalized, targetLength) ==
    IF targetLength > 0
    THEN [result |-> acc.result
                     \o Substring(newNormalized, acc.newTextPos,
                                  acc.newTextPos + targetLength),
          newTextPos |-> acc.newTextPos]
    ELSE acc

\* if (targetLength > 0) { result += newNormalized.substring(newTextPos,
\* newTextPos + targetLength); newTextPos += targetLength }
TakePortion(acc, newNormalized, targetLength) ==
    IF targetLength > 0
    THEN [result |-> acc.result
                     \o Substring(newNormalized, acc.newTextPos,
                                  acc.newTextPos + targetLength),
          newTextPos |-> acc.newTextPos + targetLength]
    ELSE acc

RECURSIVE ApplyFormattingLoop(_, _, _, _, _)
\* for (const item of formatting): k is the 1-based index of item.
ApplyFormattingLoop(formatting, k, originalTextLength, newNormalized, acc) ==
    IF k > Len(formatting) THEN acc
    ELSE IF formatting[k].type \in {"variable", "linebreak"}
    THEN ApplyFormattingLoop(formatting, k + 1, originalTextLength,
             newNormalized,
             [acc EXCEPT !.result = @ \o formatting[k].value])
    ELSE IF /\ Len(normalizeForComparison_first(formatting[k].value)) > 0
            /\ acc.newTextPos < Len(newNormalized)
    THEN ApplyFormattingLoop(formatting, k + 1, originalTextLength,
             newNormalized,
             TakePortion(acc, newNormalized,
                 TargetLength(formatting, k,
                     Len(normalizeForComparison_first(formatting[k].value)),
                     originalTextLength, Len(newNormalized), acc.newTextPos)))
    ELSE ApplyFormattingLoop(formatting, k + 1, originalTextLength,
             newNormalized, acc)

\* if (newTextPos < newTextLength) result += newNormalized.substring(newTextPos)
WithRemainder(acc, newNormalized) ==
    IF acc.newTextPos < Len(newNormalized)
    THEN acc.result \o Substring(newNormalized, acc.newTextPos, Len(newNormalized))
    ELSE acc.result

\* applyFormatting on the two canonical forms.
ApplyFormattingOn(originalText, originalNormalized, newNormalized) ==
    IF originalNormalized = newNormalized THEN originalText
    ELSE IF Len(originalNormalized) = 0 THEN originalText
    ELSE WithRemainder(
             ApplyFormattingLoop(extractFormatting(originalText), 1,
                 Len(originalNormalized), newNormalized,
                 [result |-> <<>>, newTextPos |-> 0]),
             newNormalized)

\* firstAttempt.ts applyFormatting
applyFormatting(originalText, newText) ==
    ApplyFormattingOn(originalText, normalizeForComparison_first(originalText),
                      normalizeForComparison_first(newText))

FormatPieces ==
    {<<"<hira:a>">>, <<"<hira:i>">>, <<" ">>, Variable00, LineBreak}

ReplacementPieces ==
    {<<"<kanji:a>">>, <<"<kanji:i>">>, <<"<hira:a>">>, Variable00}

\* A line that reached the reconstruction has kana in it; the replacement is
\* a non-empty corpus line.
InitFormat ==
    /\ mText \in {t \in Texts(FormatPieces, MaxFormatPieces) : containsKana(t)}
    /\ mKanjiText \in Texts(ReplacementPieces, MaxReplacementLen) \ {<<>>}
    /\ mFormattedKanji = <<>> /\ mPc = "matched"
    /\ mKanaLines = <<>> /\ mKanjiLines = <<>> /\ mLookupMap = <<>>
    /\ mLines = <<>> /\ mStats = ZeroStats /\ mDoc = <<>> /\ mOutput = <<>>
    /\ IdleNorm /\ IdleTok /\ IdleDiff /\ IdleLcs /\ IdleBuild /\ IdleLlm
    /\ IdleRun /\ IdleCall

\* processXmlFile of the first attempt after findKanjiVersion found a match
\* (it returns null for a line whose canonical form is empty).
ApplyFormattingStep ==
    /\ mPc = "matched"
    /\ normalizeForComparison_first(mText) # <<>>
    /\ mFormattedKanji' = applyFormatting(mText, mKanjiText)
    /\ mPc' = "applyFormatting"
    /\ UNCHANGED <<mKanaLines, mKanjiLines, mLookupMap, mLines, mStats, mText,
                   mKanjiText, mDoc, mOutput>>
    /\ UNCHANGED <<normVars, tokVars, diffVars, lcsVars, buildVars, llmVars, runVars, callVars>>

\* processXmlFile of the second attempt after a match.
ReconstructStep ==
    /\ mPc = "matched"
    /\ mFormattedKanji' = reconstructWithFormatting(mText, mKanjiText)
    /\ mPc' = "reconstructWithFormatting"
    /\ UNCHANGED <<mKanaLines, mKanjiLines, mLookupMap, mLines, mStats, mText,
                   mKanjiText, mDoc, mOutput>>
    /\ UNCHANGED <<normVars, tokVars, diffVars, lcsVars, buildVars, llmVars, runVars, callVars>>

NextFormat == ApplyFormattingStep \/ ReconstructStep

SpecFormat == InitFormat /\ [][NextFormat]_vars

\* The values of the variable and line-break tokens, in order.
CopiedTokens(tokens) ==
    [k \in 1..Len(StructuralTokens(tokens)) |-> StructuralTokens(tokens)[k].value]

StartsWith(s, p) == Len(p) <= Len(s) /\ SubSeq(s, 1, Len(p)) = p

RECURSIVE Weave(_, _, _)
\* result is content with the strings of copied inserted, in order, between
\* its characters: deleting them from result leaves content.
Weave(result, copied, content) ==
    IF result = <<>> THEN copied = <<>> /\ content = <<>>
    ELSE IF /\ copied # <<>> /\ StartsWith(result, copied[1])
            /\ Weave(SubSeq(result, Len(copied[1]) + 1, Len(result)),
                     Tail(copied), content)
         THEN TRUE
         ELSE /\ content # <<>> /\ result[1] = content[1]
              /\ Weave(Tail(result), copied, Tail(content))

\* C22: when the canonical forms of the original line and the replacement
\* differ, the output of the full-replacement reconstruction (applyFormatting
\* of the first attempt, reconstructWithFormatting of the second) is the
\* cleaned replacement content, whole and in order, with the variable and
\* line-break tokens of the original inserted in their order: nothing of the
\* replacement is dropped or duplicated, whatever the rounding.
C22_NoDuplicationNoLoss ==
    /\ (/\ mPc = "applyFormatting"
        /\ normalizeForComparison_first(mText)
               # normalizeForComparison_first(mKanjiText))
       => Weave(mFormattedKanji, CopiedTokens(extractFormatting(mText)),
                normalizeForComparison_first(mKanjiText))
    /\ (/\ mPc = "reconstructWithFormatting"
        /\ normalizeForComparison_second(mText)
               # normalizeForComparison_second(mKanjiText))
       => Weave(mFormattedKanji, CopiedTokens(extractStructure(mText)),
                CleanContent(mKanjiText))

\* Two text runs around a variable share three replacement characters: the
\* first run's share is rounded up from one and a half to two.
C22_Witness ==
    /\ mPc = "applyFormatting"
    /\ mText = <<"<hira:a>">> \o Variable00 \o <<"<hira:i>">>
    /\ mKanjiText = <<"<kanji:a>", "<kanji:i>", "<kanji:a>">>
    /\ mFormattedKanji
           = <<"<kanji:a>", "<kanji:i>">> \o Variable00 \o <<"<kanji:a>">>

-----------------------------------------------------------------------------
(* The characters of the canonical form *)

\* C23: the canonical form of any string holds no character of the removed
\* punctuation set and no whitespace.
C23_NoPunctuationNoWhitespace ==
    nPc \in {"once", "twice"}
        => \A k \in 1..Len(nOnce) : nOnce[k] \notin Punctuation \cup Whitespace

-----------------------------------------------------------------------------
(* SpecApply: where the replaced spans lie *)

\* The span of text replaced by mapping, as 1-based positions.
ReplacedSpan(text, mapping) ==
    IndexOf(text, mapping.kana)..(IndexOf(text, mapping.kana) + Len(mapping.kana) - 1)

\* inserted[k] tells whether character k of the running result was put there
\* by a mapping; after mapping is applied the characters of its replacement
\* are marked.
MarkInserted(text, inserted, mapping) ==
    SubSeq(inserted, 1, IndexOf(text, mapping.kana) - 1)
    \o [k \in 1..(Len(ReplaceFirst(text, mapping.kana, mapping.kanji))
                  - Len(text) + Len(mapping.kana)) |-> TRUE]
    \o SubSeq(inserted, IndexOf(text, mapping.kana) + Len(mapping.kana), Len(text))

RECURSIVE ReplacesInserted(_, _, _)
\* Some mapping of maps, applied in order to text as applyMappingsToXml does,
\* replaces a character marked as inserted.
ReplacesInserted(text, inserted, maps) ==
    IF maps = <<>> THEN FALSE
    ELSE IF ~Includes(text, Head(maps).kana)
    THEN ReplacesInserted(text, inserted, Tail(maps))
    ELSE IF \E k \in ReplacedSpan(text, Head(maps)) : inserted[k] THEN TRUE
    ELSE ReplacesInserted(ReplaceFirst(text, Head(maps).kana, Head(maps).kanji),
                          MarkInserted(text, inserted, Head(maps)),
                          Tail(maps))

\* C24: in applyMappingsToXml no mapping replaces characters that an earlier
\* mapping of the same list inserted: every replaced span lies in text of
\* the original line.
C24_OnlyOriginalText ==
    lPc = "applied"
        => ~ReplacesInserted(xmlText, [k \in 1..Len(xmlText) |-> FALSE], xmlMatches)

-----------------------------------------------------------------------------
(* SpecRun: main of the current entry point, steps 2 to 6, on a whole      *)
(* corpus and a whole XML file                                             *)

MaxRunLines == 3
MaxRunCorpus == 2

\* The opening tag of a <string> element with its attributes, and its
\* closing tag, each as one character of the line.
StringTag == "<stringtag>"
EndTag == "<endtag>"

\* xmlContent.split(/\r?\n/)
SplitLines(content) == Split(ReplaceAll(content, <<"<CR>", "<LF>">>, <<"<LF>">>), <<"<LF>">>)

\* line.match(/^(\s*<string\s+[^>]*>)(.*?)(<\/string>)$/) with match[1],
\* match[2] and match[3] all non-empty: leading whitespace, the opening tag,
\* a non-empty text without line terminators, the closing tag at the end.
StringMatch(line) ==
    /\ Len(line) >= PrefixRun(line, Whitespace) + 3
    /\ line[PrefixRun(line, Whitespace) + 1] = StringTag
    /\ line[Len(line)] = EndTag
    /\ \A k \in (PrefixRun(line, Whitespace) + 2)..(Len(line) - 1) :
           line[k] \notin {"<LF>", "<CR>"}

MatchPrefix(line) == SubSeq(line, 1, PrefixRun(line, Whitespace) + 1)
MatchText(line) == SubSeq(line, PrefixRun(line, Whitespace) + 2, Len(line) - 1)

XmlStringAt_oneBased(lines, k) ==
    [lineNum |-> k, prefix |-> MatchPrefix(lines[k]),
     text |-> MatchText(lines[k]), suffix |-> <<EndTag>>,
     normalized |-> normalizeForComparison(MatchText(lines[k]))]

\* The XmlString pushed for line k of lines (1-based here, lineNum 0-based).
XmlStringAt(lines, k) ==
    [lineNum |-> k - 1, prefix |-> MatchPrefix(lines[k]),
     text |-> MatchText(lines[k]), suffix |-> <<EndTag>>,
     normalized |-> normalizeForComparison(MatchText(lines[k]))]

RECURSIVE ParseXmlStrings(_, _)
\* Step 3: the <string> elements with kana, from line k on.
ParseXmlStrings(lines, k) ==
    IF k > Len(lines) THEN <<>>
    ELSE IF StringMatch(lines[k]) /\ containsKana(MatchText(lines[k]))
    THEN <<XmlStringAt(lines, k)>> \o ParseXmlStrings(lines, k + 1)
    ELSE ParseXmlStrings(lines, k + 1)

\* The 1-based positions in xmlStrs of the strings with this canonical form.
MatchingStrings(xmlStrs, normalizedKana) ==
    {s \in 1..Len(xmlStrs) : xmlStrs[s].normalized = normalizedKana}

\* if (!kanaCorpus || !kanjiCorpus) continue; if (normalizedKana ===
\* normalizedKanji) continue; if (normalizedKana.length < 3) continue
EntrySkipped(kanaEntry, kanjiEntry) ==
    IF kanaEntry = <<>> \/ kanjiEntry = <<>> THEN TRUE
    ELSE IF normalizeForComparison(kanaEntry) = normalizeForComparison(kanjiEntry)
    THEN TRUE
    ELSE Len(normalizeForComparison(kanaEntry)) < MinCorpusLength

\* One iteration of the loop of step 4: the first XML string with the
\* canonical form of the entry gets its mappings, if there are any; the
\* loop over the XML strings then breaks.
Step4Entry(map, xmlStrs, kanaEntry, kanjiEntry) ==
    IF EntrySkipped(kanaEntry, kanjiEntry) THEN map
    ELSE IF MatchingStrings(xmlStrs, normalizeForComparison(kanaEntry)) = {}
    THEN map
    ELSE IF findKanaKanjiMappings(kanaEntry, kanjiEntry) = <<>> THEN map
    ELSE MapSet(map,
             xmlStrs[MinOf(MatchingStrings(xmlStrs,
                               normalizeForComparison(kanaEntry)))].lineNum,
             findKanaKanjiMappings(kanaEntry, kanjiEntry))

\* xmlStrings.find(x => x.lineNum === lineNum) is not undefined
HasXmlString(xmlStrs, lineNum) ==
    \E s \in 1..Len(xmlStrs) : xmlStrs[s].lineNum = lineNum

\* xmlStrings.find(x => x.lineNum === lineNum)
FindXmlString(xmlStrs, lineNum) ==
    IF HasXmlString(xmlStrs, lineNum)
    THEN xmlStrs[MinOf({s \in 1..Len(xmlStrs) : xmlStrs[s].lineNum = lineNum})]
    ELSE Undefined

RECURSIVE Step5Loop(_, _, _, _)
\* Step 5: for (const [lineNum, mappings] of xmlMatches), from entry k on.
Step5Loop(matches, xmlStrs, k, modified) ==
    IF k > Len(matches) THEN modified
    ELSE IF ~HasXmlString(xmlStrs, matches[k].key)
    THEN Step5Loop(matches, xmlStrs, k + 1, modified)
    ELSE Step5Loop(matches, xmlStrs, k + 1,
             MapSet(modified, matches[k].key,
                 FindXmlString(xmlStrs, matches[k].key).prefix
                 \o applyMappingsToXml(FindXmlString(xmlStrs, matches[k].key).text,
                                       matches[k].value)
                 \o FindXmlString(xmlStrs, matches[k].key).suffix))

\* Step 6: outputContent, one line and a newline for each line read.
OutputOf(lines, modified) ==
    Flatten([k \in 1..Len(lines) |->
        (IF MapHas(modified, k - 1) THEN MapGet(modified, k - 1) ELSE lines[k])
        \o <<"<LF>">>])

\* Line k (1-based) is an unmatched kana string that needs the LLM.
NeedsLlm(lines, xmlStrs, modified, k) ==
    IF MapHas(modified, k - 1) THEN FALSE
    ELSE IF ~HasXmlString(xmlStrs, k - 1) THEN FALSE
    ELSE needsKanjification(FindXmlString(xmlStrs, k - 1).text)

RECURSIVE LlmInputOf(_, _, _, _)
\* Step 6: llmInputStrings, from line k on.
LlmInputOf(lines, xmlStrs, modified, k) ==
    IF k > Len(lines) THEN <<>>
    ELSE IF NeedsLlm(lines, xmlStrs, modified, k)
    THEN <<[lineNum |-> k - 1, text |-> FindXmlString(xmlStrs, k - 1).text]>>
         \o LlmInputOf(lines, xmlStrs, modified, k + 1)
    ELSE LlmInputOf(lines, xmlStrs, modified, k + 1)

RunPairs ==
    { CorpusPair(<<"<hira:a>", "<hira:i>", "<hira:ka>">>,
                 <<"<kanji:a>", "<hira:i>", "<hira:ka>">>),
      CorpusPair(<<"<hira:ka>", "<hira:ka>", "<hira:ka>">>,
                 <<"<kanji:o>", "<hira:ka>", "<hira:ka>">>) }

\* Lines of the XML file: a line that is no element, two elements with the
\* same canonical form, an element with another one, an element without
\* kana.
RunLinesOfFile ==
    { <<"<header>">>,
      <<" ", StringTag, "<hira:a>", "<hira:i>", "<hira:ka>", EndTag>>,
      <<" ", StringTag, "<hira:a>", "<hira:i>">> \o Variable00
          \o <<"<hira:ka>", EndTag>>,
      <<" ", StringTag, "<hira:ka>", "<hira:ka>", "<hira:ka>", EndTag>>,
      <<" ", StringTag, "a", EndTag>> }

\* A file of these lines, each ended by eol.
FileOf(lines, eol) == Flatten([k \in 1..Len(lines) |-> lines[k] \o eol])

InitRun ==
    /\ \E corpus \in Corpora(RunPairs, MaxRunCorpus) :
           /\ kanaLines = KanaLinesOf(corpus)
           /\ kanjiLines = KanjiLinesOf(corpus)
    /\ \E lines \in SeqsUpTo(RunLinesOfFile, MaxRunLines),
          eol \in {<<"<LF>">>, <<"<CR>", "<LF>">>} :
           xmlContent = FileOf(lines, eol)
    /\ xmlLines = <<>> /\ xmlStrings = <<>> /\ corpusI = 0
    /\ xmlMatchesMap = <<>> /\ modifiedXml = <<>> /\ outputContent = <<>>
    /\ llmInputStrings = <<>> /\ runPc = "step2"
    /\ IdleNorm /\ IdleTok /\ IdleDiff /\ IdleLcs /\ IdleBuild /\ IdleMatch
    /\ IdleLlm /\ IdleCall

\* Step 2: Read XML
RunStep2 ==
    /\ runPc = "step2"
    /\ xmlLines' = SplitLines(xmlContent)
    /\ runPc' = "step3"
    /\ UNCHANGED <<kanaLines, kanjiLines, xmlContent, xmlStrings, corpusI,
                   xmlMatchesMap, modifiedXml, outputContent, llmInputStrings>>
    /\ UNCHANGED <<normVars, tokVars, diffVars, lcsVars, buildVars, matchVars,
                   llmVars, callVars>>

\* Step 3: Parse XML strings with Kana
RunStep3 ==
    /\ runPc = "step3"
    /\ xmlStrings' = ParseXmlStrings(xmlLines, 1)
    /\ runPc' = "step4"
    /\ UNCHANGED <<kanaLines, kanjiLines, xmlContent, xmlLines, corpusI,
                   xmlMatchesMap, modifiedXml, outputContent, llmInputStrings>>
    /\ UNCHANGED <<normVars, tokVars, diffVars, lcsVars, buildVars, matchVars,
                   llmVars, callVars>>

\* Step 4, one corpus entry.
RunStep4 ==
    /\ runPc = "step4"
    /\ corpusI < Min(Len(kanaLines), Len(kanjiLines))
    /\ corpusI' = corpusI + 1
    /\ xmlMatchesMap' = Step4Entry(xmlMatchesMap, xmlStrings,
                                   kanaLines[corpusI'], kanjiLines[corpusI'])
    /\ UNCHANGED <<kanaLines, kanjiLines, xmlContent, xmlLines, xmlStrings,
                   modifiedXml, outputContent, llmInputStrings, runPc>>
    /\ UNCHANGED <<normVars, tokVars, diffVars, lcsVars, buildVars, matchVars,
                   llmVars, callVars>>

\* Step 5: Apply mappings to XML
RunStep5 ==
    /\ runPc = "step4"
    /\ corpusI >= Min(Len(kanaLines), Len(kanjiLines))
    /\ modifiedXml' = Step5Loop(xmlMatchesMap, xmlStrings, 1, <<>>)
    /\ runPc' = "step6"
    /\ UNCHANGED <<kanaLines, kanjiLines, xmlContent, xmlLines, xmlStrings,
                   corpusI, xmlMatchesMap, outputContent, llmInputStrings>>
    /\ UNCHANGED <<normVars, tokVars, diffVars, lcsVars, buildVars, matchVars,
                   llmVars, callVars>>

\* Step 6: Write output and prepare LLM input
RunStep6 ==
    /\ runPc = "step6"
    /\ outputContent' = OutputOf(xmlLines, modifiedXml)
    /\ llmInputStrings' = LlmInputOf(xmlLines, xmlStrings, modifiedXml, 1)
    /\ runPc' = "done"
    /\ UNCHANGED <<kanaLines, kanjiLines, xmlContent, xmlLines, xmlStrings,
                   corpusI, xmlMatchesMap, modifiedXml>>
    /\ UNCHANGED <<normVars, tokVars, diffVars, lcsVars, buildVars, matchVars,
                   llmVars, callVars>>

NextRun == RunStep2 \/ RunStep3 \/ RunStep4 \/ RunStep5 \/ RunStep6

SpecRun == InitRun /\ [][NextRun]_vars

\* Corpus entry i (1-based) passes the tests of step 4 and yields at least
\* one mapping.
UsableEntry(i) ==
    /\ ~EntrySkipped(kanaLines[i], kanjiLines[i])
    /\ findKanaKanjiMappings(kanaLines[i], kanjiLines[i]) # <<>>

\* C25: at the end of the run every XML kana string whose canonical form is
\* the canonical phonetic form of a usable corpus entry is recorded as
\* matched and has a converted line, also when several XML strings share
\* that canonical form.
C25_ExactMatchingComplete ==
    runPc = "done"
        => \A s \in 1..Len(xmlStrings) :
               (\E i \in 1..Min(Len(kanaLines), Len(kanjiLines)) :
                    /\ UsableEntry(i)
                    /\ normalizeForComparison(kanaLines[i]) = xmlStrings[s].normalized)
               => /\ MapHas(xmlMatchesMap, xmlStrings[s].lineNum)
                  /\ MapHas(modifiedXml, xmlStrings[s].lineNum)

-----------------------------------------------------------------------------
(* SpecRun: the line numbers of the LLM input *)

\* The text updateXMLFile finds in line with /(<string[^>]*>)(.*?)(<\/string>)/:
\* from the first opening tag to the first closing tag after it; Null
\* without a match.
ElementText(line) ==
    IF ~Includes(line, <<StringTag>>) THEN Null
    ELSE IF ~Includes(SubSeq(line, IndexOf(line, <<StringTag>>) + 1, Len(line)),
                      <<EndTag>>)
    THEN Null
    ELSE SubSeq(line, IndexOf(line, <<StringTag>>) + 1,
                IndexOf(line, <<StringTag>>)
                + IndexOf(SubSeq(line, IndexOf(line, <<StringTag>>) + 1, Len(line)),
                          <<EndTag>>) - 1)

\* xmlContent.split('\n') of the output file, as updateXMLFile reads it.
OutputLines == Split(outputContent, <<"<LF>">>)

-----------------------------------------------------------------------------
(* SpecLlm: main and processBatchWithLLM of the LLM stage with the Gemini   *)
(* option, with the requests sent, the waits and the line numbers returned *)

MaxSmallRun == 2

\* const GEMINI_DELAY_MS = USE_GEMINI ? 6000 : 0
GEMINI_DELAY_MS(gemini) == IF gemini THEN 6000 ELSE 0

\* setTimeout(resolve, 2000) before the retry of a failed request
ErrorRetryDelayMs == 2000

\* const BATCH_SIZE = USE_GEMINI ? 500 : 200
BatchSizeOf(gemini) == IF gemini THEN 500 ELSE 200

\* The line numbers of the no_match file: n strings on every second line of
\* the XML file; the lines between them are not in the file.
LinesOfNoMatch(n) == [k \in 1..n |-> 2 * k]
ForeignLines == {1}

\* Math.ceil(entries.length / BATCH_SIZE)
TotalBatches(n, size) == (n + size - 1) \div size

\* entries.slice(i, Math.min(i + BATCH_SIZE, entries.length)), as line numbers
BatchLines(entries, i, size) ==
    {entries[k] : k \in (i + 1)..Min(i + size, Len(entries))}

MayRetry_onceMore(retryAttempt) == retryAttempt <= MAX_RETRIES("geminiOrOllama")

\* if (retryAttempt < MAX_RETRIES)
MayRetry(retryAttempt) == retryAttempt < MAX_RETRIES("geminiOrOllama")

\* retryAttempt of the innermost call
RetryAttempt == Len(callFrames) - 1

\* A call of processBatchWithLLM: its batch, the keys of its results map and
\* how it was called ("main", "missing": retry of the missing strings,
\* "error": retry of the entire batch).
Frame(batch, how) == [batch |-> batch, results |-> {}, how |-> how]

RECURSIVE Unwind(_, _)
\* The keys of the map that the call at depth k returns once the calls
\* inside it have returned inner: a retry of the missing strings is merged
\* into the results of its caller, a retry after an error is returned as it
\* is.
Unwind(frames, k) ==
    IF k = Len(frames) THEN frames[k].results
    ELSE IF frames[k + 1].how = "missing"
         THEN frames[k].results \cup Unwind(frames, k + 1)
         ELSE Unwind(frames, k + 1)

InitLlm ==
    /\ useGemini \in BOOLEAN
    /\ \E n \in 1..MaxSmallRun \cup {BatchSizeOf(useGemini) + 1} :
           noMatchLines = LinesOfNoMatch(n)
    /\ loopI = 0 /\ allConversions = {} /\ callFrames = <<>>
    /\ callRequests = 0 /\ callReturned = {} /\ waitedMs = -1
    /\ callPc = "connect"
    /\ IdleNorm /\ IdleTok /\ IdleDiff /\ IdleLcs /\ IdleBuild /\ IdleMatch
    /\ IdleLlm /\ IdleRun

\* Step 3: model.generateContent('test') with Gemini, ollama.list() without.
ConnectionTest ==
    /\ callPc = "connect"
    /\ waitedMs' = IF useGemini THEN 0 ELSE waitedMs
    /\ callPc' = "loop"
    /\ UNCHANGED <<useGemini, noMatchLines, loopI, allConversions, callFrames,
                   callRequests, callReturned>>
    /\ UNCHANGED <<normVars, tokVars, diffVars, lcsVars, buildVars, matchVars,
                   llmVars, runVars>>

\* Step 3, the test request throws: process.exit(1)
ConnectionFails ==
    /\ callPc = "connect"
    /\ callPc' = "exited"
    /\ UNCHANGED <<useGemini, noMatchLines, loopI, allConversions, callFrames,
                   callRequests, callReturned, waitedMs>>
    /\ UNCHANGED <<normVars, tokVars, diffVars, lcsVars, buildVars, matchVars,
                   llmVars, runVars>>

\* main calls processBatchWithLLM(batch, systemPrompt)
StartCall ==
    /\ callPc = "loop" /\ loopI < Len(noMatchLines)
    /\ callFrames' = <<Frame(BatchLines(noMatchLines, loopI,
                                        BatchSizeOf(useGemini)), "main")>>
    /\ callRequests' = 0
    /\ callReturned' = {}
    /\ callPc' = "request"
    /\ UNCHANGED <<useGemini, noMatchLines, loopI, allConversions, waitedMs>>
    /\ UNCHANGED <<normVars, tokVars, diffVars, lcsVars, buildVars, matchVars,
                   llmVars, runVars>>

\* model.generateContent(fullPrompt) or ollama.generate(...)
SendRequest ==
    /\ callPc = "request"
    /\ callRequests' = callRequests + 1
    /\ waitedMs' = IF useGemini THEN 0 ELSE waitedMs
    /\ callPc' = "awaiting"
    /\ UNCHANGED <<useGemini, noMatchLines, loopI, allConversions, callFrames,
                   callReturned>>
    /\ UNCHANGED <<normVars, tokVars, diffVars, lcsVars, buildVars, matchVars,
                   llmVars, runVars>>

\* The response was parsed into results (the line numbers found in it).
\* With strings of the batch missing and retries left the call calls itself
\* for the missing strings; otherwise it returns, and so do its callers.
Parsed(results) ==
    /\ callPc = "awaiting"
    /\ IF /\ callFrames[Len(callFrames)].batch \ results # {}
          /\ MayRetry(RetryAttempt)
       THEN /\ callFrames' =
                   Append([callFrames EXCEPT ![Len(callFrames)].results = results],
                          Frame(callFrames[Len(callFrames)].batch \ results,
                                "missing"))
            /\ callPc' = "request"
            /\ UNCHANGED callReturned
       ELSE /\ callFrames' = [callFrames EXCEPT ![Len(callFrames)].results = results]
            /\ callReturned' = Unwind(callFrames', 1)
            /\ callPc' = "returned"
    /\ UNCHANGED <<useGemini, noMatchLines, loopI, allConversions,
                   callRequests, waitedMs>>
    /\ UNCHANGED <<normVars, tokVars, diffVars, lcsVars, buildVars, matchVars,
                   llmVars, runVars>>

\* The response holds every string of the batch.
AnswerComplete ==
    callPc = "awaiting" /\ Parsed(callFrames[Len(callFrames)].batch)

\* The response misses the string of the batch with the highest line number.
AnswerPartial ==
    /\ callPc = "awaiting"
    /\ \E last \in callFrames[Len(callFrames)].batch :
           /\ \A other \in callFrames[Len(callFrames)].batch : other <= last
           /\ Parsed(callFrames[Len(callFrames)].batch \ {last})

\* The response holds every string of the batch and a string with a line
\* number that is not in the no_match file.
AnswerForeign ==
    /\ callPc = "awaiting"
    /\ Parsed(callFrames[Len(callFrames)].batch \cup ForeignLines)

\* The request threw: with retries left, 2 seconds of wait and a call for
\* the entire batch, whose result is returned; otherwise the empty results.
AnswerError ==
    /\ callPc = "awaiting"
    /\ IF MayRetry(RetryAttempt)
       THEN /\ waitedMs' = IF useGemini THEN waitedMs + ErrorRetryDelayMs
                           ELSE waitedMs
            /\ callFrames' = Append(callFrames,
                                 Frame(callFrames[Len(callFrames)].batch, "error"))
            /\ callPc' = "request"
            /\ UNCHANGED callReturned
       ELSE /\ callReturned' = Unwind(callFrames, 1)
            /\ callPc' = "returned"
            /\ UNCHANGED <<callFrames, waitedMs>>
    /\ UNCHANGED <<useGemini, noMatchLines, loopI, allConversions, callRequests>>
    /\ UNCHANGED <<normVars, tokVars, diffVars, lcsVars, buildVars, matchVars,
                   llmVars, runVars>>

\* main merges the conversions, waits between two batches with Gemini and
\* goes on with i += BATCH_SIZE.
MergeConversions ==
    /\ callPc = "returned"
    /\ allConversions' = allConversions \cup callReturned
    /\ waitedMs' =
           IF /\ useGemini
              /\ (loopI \div BatchSizeOf(useGemini)) + 1
                     < TotalBatches(Len(noMatchLines), BatchSizeOf(useGemini))
           THEN waitedMs + GEMINI_DELAY_MS(useGemini)
           ELSE waitedMs
    /\ loopI' = loopI + BatchSizeOf(useGemini)
    /\ callPc' = "loop"
    /\ UNCHANGED <<useGemini, noMatchLines, callFrames, callRequests,
                   callReturned>>
    /\ UNCHANGED <<normVars, tokVars, diffVars, lcsVars, buildVars, matchVars,
                   llmVars, runVars>>

\* The loop is left: updateXMLFile(allConversions)
UpdateXml ==
    /\ callPc = "loop" /\ loopI >= Len(noMatchLines)
    /\ callPc' = "done"
    /\ UNCHANGED <<useGemini, noMatchLines, loopI, allConversions, callFrames,
                   callRequests, callReturned, waitedMs>>
    /\ UNCHANGED <<normVars, tokVars, diffVars, lcsVars, buildVars, matchVars,
                   llmVars, runVars>>

NextLlm ==
    \/ ConnectionTest \/ ConnectionFails \/ StartCall \/ SendRequest
    \/ AnswerComplete \/ AnswerPartial \/ AnswerForeign \/ AnswerError
    \/ MergeConversions \/ UpdateXml

SpecLlm == InitLlm /\ [][NextLlm]_vars

\* Every request is answered or fails, and main goes on after a call.
SpecLlmFair == SpecLlm /\ WF_vars(NextLlm)

\* C26: one top-level call of processBatchWithLLM sends at most
\* 1 + MAX_RETRIES = 4 requests, and always returns a map: it does not retry
\* forever.
C26_BoundedRetry ==
    /\ [](callRequests <= 1 + MAX_RETRIES("geminiOrOllama"))
    /\ (callPc = "request") ~> (callPc = "returned")

\* A call returned after four requests, the last one after three retries.
C26_Witness ==
    /\ callPc = "returned"
    /\ callRequests = 4
    /\ Len(callFrames) = 4
    /\ callFrames[2].how = "error"
    /\ callFrames[3].how = "missing"

\* C27: with the Gemini provider, a request to the Gemini API (the
\* connection test, a batch, a retry) that follows another one is sent only
\* after waits of at least 6 seconds in all since that one.
C27_GeminiRateLimit ==
    [][(useGemini /\ callRequests' = callRequests + 1 /\ waitedMs >= 0)
           => waitedMs >= GEMINI_DELAY_MS(TRUE)]_vars

\* C28: the map returned by a top-level call of processBatchWithLLM holds
\* only line numbers of the batch it was called with.
C28_OnlyLinesSent ==
    callPc = "returned" => callReturned \subseteq callFrames[1].batch

-----------------------------------------------------------------------------
(* SpecMatch: the outcome counters *)

OutcomeClasses == {"skippedNoKana", "foundMatches", "notFoundMatches"}

\* This step is processXmlFile handling a line that is a <string> element.
StringProcessed ==
    /\ mLines # <<>>
    /\ Head(mLines).element
    /\ mLines' = Tail(mLines)

\* C30: after any prefix of the lines, totalStrings = skippedNoKana +
\* processedWithKana, processedWithKana = foundMatches + notFoundMatches and
\* multiSegmentMatches + partialMatches <= foundMatches; each string
\* processed adds one to exactly one of the three outcome counters and
\* changes no other of them.
C30_CountersConsistent ==
    /\ [](/\ mStats.totalStrings = mStats.skippedNoKana + mStats.processedWithKana
          /\ mStats.processedWithKana
                 = mStats.foundMatches + mStats.notFoundMatches
          /\ mStats.multiSegmentMatches + mStats.partialMatches
                 <= mStats.foundMatches)
    /\ [][StringProcessed =>
            \E class \in OutcomeClasses :
                /\ mStats'[class] = mStats[class] + 1
                /\ \A other \in OutcomeClasses \ {class} :
                       mStats'[other] = mStats[other]]_vars

\* A file of two strings was processed: one without kana, one resolved by
\* its double-line-break segments.
C30_Witness ==
    /\ mPc = "written"
    /\ mStats.totalStrings = 2
    /\ mStats.skippedNoKana = 1
    /\ mStats.foundMatches = 1
    /\ mStats.multiSegmentMatches = 1

====
